---- MODULE Spec2Model ----
(***************************************************************************)
(* LinkVault: the link store gateway (links-saver-backend/src/routes/      *)
(* links.js), the metadata resolver, and the client cache with optimistic  *)
(* mutations and undo-delete (links-saver-frontend/src/hooks/useLinks.ts). *)
(***************************************************************************)
EXTENDS Integers, Sequences, FiniteSets, TLC

\* ------------------------------------------------------------------ bounds
NLinks == 2          \* links stored at start of a client run
MaxOps == 2          \* user operations (card deletes, hook mutations) per client run
MaxReqs == 4         \* requests arriving at the gateway per gateway run
MaxBatch == 2        \* items of a bulk ingestion request
MaxRows == 3         \* rows ever inserted into useful_links per gateway run
MaxColls == 2        \* rows ever inserted into collections per gateway run
MaxKeys == 5         \* keystrokes and resets in the search box per run
MaxUrls == 20        \* links.js:224
MaxUrlLen == 2048    \* utils/validation.js:25
MaxNoteLen == 5000   \* utils/validation.js:29
QueryRetry == 1      \* main.tsx:11

LinkIds == 1..NLinks
Users == {"X", "Y"}
Owner == "X"         \* the signed-in user of the client runs
Null == "null"
NoRow == [absent |-> TRUE]
NoLink == [id |-> 0]                                       \* deletedLink = null
NoCollection == 0                                          \* collection_id null

\* ------------------------------------------------------------ query keys
\* queryKeys.links(filters): one cached view per filter combination.
AllView == [favorite |-> FALSE]
FavView == [favorite |-> TRUE]
ViewKeys == {AllView, FavView}

VARIABLES
    links,          \* useful_links table: id -> row or NoRow
    toggles,        \* favorite-toggle requests between their read and their write
    bulk,           \* the bulk ingestion being processed, or NoBulk
    resp,           \* history: the last response of the gateway
    chain,          \* history: a run of favorite-toggles on one link, one after another
    reqs,           \* number of requests that arrived at the gateway
    collections,    \* collections table: id -> row or NoRow
    cache,          \* query cache: ['links', filters] -> Link[]
    invalidated,    \* views marked stale by invalidateQueries, refetch pending
    statsInvalid,   \* ['stats'] marked stale, refetch pending
    deletedLink,    \* module-level single-slot holder (useLinks.ts:155)
    undoTimeout,    \* module-level timer handle (useLinks.ts:156), 0 = null
    timers,         \* scheduled, not yet fired or cleared setTimeout callbacks
    nextTimer,      \* next timer handle
    undoToasts,     \* visible 'Link deleted' toasts, by the link they were shown for
    cardReqs,       \* LinkCard.handleDelete awaiting api.deleteLink: the card's link
    muts,           \* useMutation instances in flight
    started,        \* number of hook mutations started
    ops,            \* number of user operations so far
    delReqs,        \* history: DELETE /api/links/:id requests issued per id
    passed,         \* history: ids passed to deleteWithUndo
    heldIn,         \* history: per id, the views that held it when it was passed to deleteWithUndo
    undoRestored,   \* history: ids reinserted by Undo since their last deleteWithUndo
    deferred,       \* history: ids whose deferred delete request was issued
    committedOk,    \* history: ids whose deferred delete request succeeded
    lastEvent,      \* history: the handler that ran last
    form,           \* AddLinkForm state: url, duplicate, allowDuplicate, loading
    formTimer,      \* AddLinkForm debounceRef: the pending duplicate check, or NoTimer
    formChecks,     \* AddLinkForm: URLs of the duplicate-check requests in flight
    formSent,       \* history: the last submit of AddLinkForm and what it sent
    attempts,       \* per query and mutation: its state and the requests sent for its current fetch
    searchBox       \* Dashboard: searchInput, search, the debounce timers, and history

vars == <<links, toggles, bulk, resp, chain, reqs, collections, cache, invalidated, statsInvalid, deletedLink, undoTimeout,
          timers, nextTimer, undoToasts, cardReqs, muts, started, ops,
          delReqs, passed, heldIn, undoRestored, deferred, committedOk, lastEvent,
          form, formTimer, formChecks, formSent, attempts, searchBox>>

\* State of the components outside the gateway and the links cache.
formVars == <<form, formTimer, formChecks, formSent>>
uiVars == <<formVars, attempts, searchBox>>
\* State of the gateway, state of the links cache.
serverVars == <<toggles, bulk, resp, chain, reqs, collections>>
cacheVars == <<cache, invalidated, statsInvalid, deletedLink, undoTimeout,
               timers, nextTimer, undoToasts, cardReqs, muts, started,
               ops, delReqs, passed, heldIn, undoRestored, deferred,
               committedOk, lastEvent>>
\* What a handler of the cache, and what a handler of the gateway, leaves alone.
besideForm == <<serverVars, cacheVars, attempts, searchBox>>
gatewayVars == <<serverVars, uiVars>>
clientVars == <<cacheVars, uiVars>>

\* ------------------------------------------------------------- sequences
SeqIds(s) == {s[i].id : i \in 1..Len(s)}

Max(S) == CHOOSE x \in S : \A y \in S : y <= x

\* ids in descending order: order('created_at', { ascending: false }), ids being
\* handed out in creation order.
RECURSIVE DescSeq(_)
DescSeq(S) == IF S = {} THEN <<>> ELSE <<Max(S)>> \o DescSeq(S \ {Max(S)})

\* ---------------------------------------------------------------- strings
\* A string is its text and whether it carries surrounding whitespace.
Str(body) == [pad |-> FALSE, body |-> body]
Trim(s) == [s EXCEPT !.pad = FALSE]

\* -------------------------------------------------- the useful_links table
\* The table is the sequence of the rows ever inserted; a deleted row is NoRow.
Exists(t, id) == id \in 1..Len(t) /\ t[id] # NoRow

\* (a filter on the id alone)
OwnedByAnyone(t, user, id) == Exists(t, id)
\* .eq('id', id).eq('user_id', user)
Owned(t, user, id) == Exists(t, id) /\ t[id].user_id = user

\* The Link the API returns for a row, as far as the client cache reads it.
ToLink(t, id) == [id |-> id, is_favorite |-> t[id].is_favorite, note |-> t[id].note]

\* A text column read character by character, or null.
Text(chars) == [chars |-> chars]
NullText == [isnull |-> TRUE]
Lower(c) == IF c = "A" THEN "a" ELSE IF c = "B" THEN "b" ELSE c

\* text ILIKE pattern: % stands for any run of characters, _ for any one
\* character, letters match without regard to case.
RECURSIVE Like(_, _)
Like(text, pat) ==
    IF pat = <<>> THEN text = <<>>
    ELSE IF Head(pat) = "%"
    THEN Like(text, Tail(pat)) \/ (text # <<>> /\ Like(Tail(text), pat))
    ELSE /\ text # <<>>
         /\ (Head(pat) = "_" \/ Lower(Head(pat)) = Lower(Head(text)))
         /\ Like(Tail(text), Tail(pat))

SearchColumns == {"title", "note", "url", "description"}

\* or(`title.ilike.%${search}%,note.ilike.%${search}%,url.ilike.%${search}%,
\* description.ilike.%${search}%`), links.js:36-38
SearchMatches(row, search) ==
    \E f \in SearchColumns :
        row[f] # NullText /\ Like(row[f].chars, <<"%">> \o search \o <<"%">>)

\* GET /api/links: the caller's rows, filtered, newest first. filters holds
\* favorite and, when the query supplies them, collection_id and search.
GetLinks(t, user, filters) ==
    LET ids == {id \in 1..Len(t) :
                   /\ Owned(t, user, id)
                   /\ (filters.favorite => t[id].is_favorite)
                   /\ ("collection_id" \in DOMAIN filters
                         /\ filters.collection_id # NoCollection)
                          => t[id].collection_id = filters.collection_id
                   /\ ("search" \in DOMAIN filters /\ filters.search # <<>>)
                          => SearchMatches(t[id], filters.search)}
        ord == DescSeq(ids)
    IN [i \in 1..Len(ord) |-> ToLink(t, ord[i])]

\* The trigger update_useful_links_updated_at: BEFORE UPDATE ... FOR EACH ROW
\* sets updated_at = NOW(); updated_at counts the row's updates.
Touch(row) == [row EXCEPT !.updated_at = @ + 1]

\* DELETE /api/links/:id: deletes the caller's row with that id, if any; a
\* delete that matches no row is no error.
\* (a delete whose filter matches no row)
DeleteNoRow(t, user, id) == t
DeleteRow(t, user, id) ==
    IF Owned(t, user, id) THEN [t EXCEPT ![id] = NoRow] ELSE t

\* PATCH /api/links/:id/favorite, the read: the row's is_favorite, or no row
\* (404).
ToggleRead(t, user, id) ==
    IF Owned(t, user, id)
    THEN [found |-> TRUE, is_favorite |-> t[id].is_favorite]
    ELSE [found |-> FALSE, is_favorite |-> FALSE]

\* PATCH /api/links/:id/favorite, the write of the negated value read;
\* .single() is an error (500) when no row matched.
\* (a write of the value read, not negated)
ToggleWriteSame(t, user, id, current) ==
    IF Owned(t, user, id)
    THEN [ok |-> TRUE,
          links |-> [t EXCEPT ![id] = Touch([@ EXCEPT !.is_favorite = current])],
          is_favorite |-> current]
    ELSE [ok |-> FALSE, links |-> t, is_favorite |-> current]
ToggleWrite(t, user, id, current) ==
    IF Owned(t, user, id)
    THEN [ok |-> TRUE,
          links |-> [t EXCEPT ![id] = Touch([@ EXCEPT !.is_favorite = ~current])],
          is_favorite |-> ~current]
    ELSE [ok |-> FALSE, links |-> t, is_favorite |-> current]

\* PATCH /api/links/:id, links.js:341-367. body maps the fields the request
\* supplies (among note, is_favorite, collection_id) to their values; the note
\* is trimmed, an empty collection_id becomes null. .single() is an error
\* (500) when no row matched.
\* (a full-record replace: the omitted fields fall back to their defaults)
PatchReplaces(body) ==
    [f \in {"note", "is_favorite", "collection_id"} |->
        IF f \in DOMAIN body
        THEN IF f = "note" THEN Trim(body[f]) ELSE body[f]
        ELSE IF f = "note" THEN Str("")
        ELSE IF f = "is_favorite" THEN FALSE ELSE NoCollection]

PatchUpdates(body) ==
    [f \in DOMAIN body |-> IF f = "note" THEN Trim(body[f]) ELSE body[f]]

PatchLink(t, user, id, body) ==
    LET updates == PatchUpdates(body)
    IN IF Owned(t, user, id)
       THEN [ok |-> TRUE,
             links |-> [t EXCEPT ![id] =
                          Touch([f \in DOMAIN t[id] |->
                                   IF f \in DOMAIN updates THEN updates[f]
                                   ELSE t[id][f]])]]
       ELSE [ok |-> FALSE, links |-> t]

\* ------------------------------------------------------------ URL values
\* What a request can carry where a URL is expected: strings (well-formed with
\* an http or https scheme, well-formed with another scheme, malformed, blank)
\* and values that are no string.
GoodBodies == {"https://a.com", "https://b.com"}
\* well-formed https URLs of 2048 and of 2049 characters
ExactUrlBody == "https://exact.example/..."
LongUrlBody == "https://long.example/..."
LongBodies == {ExactUrlBody, LongUrlBody}
\* notes of 5000 and of 5001 characters
ExactNoteBody == "note of 5000"
LongNoteBody == "note of 5001"
OtherSchemeBody == "ftp://c.com"
MalformedBody == "not a url"
BlankBody == ""
Undefined == [nonstring |-> "undefined"]
JsNull == [nonstring |-> "null"]
JsNumber == [nonstring |-> "number"]

IsString(v) == "body" \in DOMAIN v

\* new URL(s) succeeds; the parser strips surrounding whitespace itself.
Parses(s) == s.body \in GoodBodies \cup LongBodies \cup {OtherSchemeBody}

\* isValidUrl, utils/validation.js
isValidUrl(s) == Parses(s) /\ s.body \in GoodBodies \cup LongBodies

\* new URL(url).hostname.replace('www.', '').split('.')[0]
DomainOf(s) ==
    CASE s.body = "https://a.com" -> "a"
      [] s.body = "https://b.com" -> "b"
      [] OTHER -> "c"

\* string.length: the whitespace around the text counts.
Length(s) ==
    (IF s.body = LongUrlBody THEN MaxUrlLen + 1
     ELSE IF s.body = ExactUrlBody THEN MaxUrlLen
     ELSE IF s.body = LongNoteBody THEN MaxNoteLen + 1
     ELSE IF s.body = ExactNoteBody THEN MaxNoteLen
     ELSE IF s.body = BlankBody THEN 0 ELSE 13)
    + (IF s.pad THEN 2 ELSE 0)

\* A field of a request body, undefined when the body does not hold it.
Field(body, f) == IF f \in DOMAIN body THEN body[f] ELSE Undefined

\* (a validation without the two length limits)
validateUrlOnly(input) ==
    LET url == Field(input, "url")
    IN IF ~IsString(url) \/ Trim(url).body = BlankBody
       THEN [valid |-> FALSE, error |-> "URL is required"]
       ELSE IF ~isValidUrl(Trim(url))
       THEN [valid |-> FALSE, error |-> "Invalid URL format"]
       ELSE [valid |-> TRUE, error |-> ""]

\* validateLinkInput({ url, note }), utils/validation.js:16-34. A note that is
\* no string has no length to compare.
validateLinkInput(input) ==
    LET url == Field(input, "url")
        note == Field(input, "note")
    IN IF ~IsString(url) \/ Trim(url).body = BlankBody
       THEN [valid |-> FALSE, error |-> "URL is required"]
       ELSE IF ~isValidUrl(Trim(url))
       THEN [valid |-> FALSE, error |-> "Invalid URL format"]
       ELSE IF Length(url) > MaxUrlLen
       THEN [valid |-> FALSE, error |-> "URL is too long"]
       ELSE IF IsString(note) /\ Length(note) > MaxNoteLen
       THEN [valid |-> FALSE, error |-> "Note is too long"]
       ELSE [valid |-> TRUE, error |-> ""]

\* ------------------------------------------- metadata resolver (metadataFetcher.js)
\* What the scraper does with a URL it is handed: a result with a title, a
\* result without one, an error in its answer, or an exception (timeout).
ScrapeOutcomes == {"titled", "untitled", "error", "throws"}

\* The same with what the scraper reports as the page's icon: an absolute
\* address, a relative one, or one that new URL(u, origin) cannot resolve.
IconOutcomes == {"iconAbsolute", "iconRelative", "iconUnresolvable"}
ResolverOutcomes == ScrapeOutcomes \cup IconOutcomes

\* extractDomainName(url), metadataFetcher.js:66-73
extractDomainName(url) == IF Parses(url) THEN DomainOf(url) ELSE "Link"

\* (a fallback that knows no icon)
getFallbackWithoutIcon(url) ==
    [title |-> extractDomainName(url), description |-> Null, image |-> Null,
     favicon |-> Null]

\* getFallbackMetadata(url), metadataFetcher.js:44-61
getFallbackMetadata(url) ==
    IF Parses(url)
    THEN [title |-> extractDomainName(url), description |-> Null, image |-> Null,
          favicon |-> "google-favicon-128"]
    ELSE [title |-> "Saved Link", description |-> Null, image |-> Null,
          favicon |-> Null]

\* The outcome of a try block that threw.
Thrown == [thrown |-> TRUE]

\* const { result, error } = await ogs(options): the scraper cannot fetch what
\* does not parse as a URL, and a timeout rejects.
ogs(url, outcome) ==
    IF ~Parses(url) \/ outcome = "throws" THEN Thrown
    ELSE [error |-> outcome = "error",
          ogTitle |-> IF outcome = "titled" THEN "og-title" ELSE Null,
          favicon |-> CASE outcome = "iconAbsolute" -> "http-icon"
                        [] outcome = "iconRelative" -> "relative-icon"
                        [] outcome = "iconUnresolvable" -> "unresolvable-icon"
                        [] OTHER -> Null]

\* resolve(u), metadataFetcher.js:27: new URL(u, origin) throws on what it
\* cannot resolve.
resolveThrows(u) == u = "unresolvable-icon"
resolve(u) ==
    CASE u = "relative-icon" -> "resolved-icon"
      [] OTHER -> u

\* The try block of fetchMetadata, metadataFetcher.js:9-34
fetchMetadataTry(url, outcome) ==
    LET scraped == ogs(url, outcome)
    IN IF scraped = Thrown THEN Thrown
       ELSE IF scraped.error THEN getFallbackMetadata(url)
       ELSE IF resolveThrows(scraped.favicon) THEN Thrown
       ELSE [title |-> IF scraped.ogTitle # Null THEN scraped.ogTitle
                       ELSE extractDomainName(url),
             description |-> Null,
             image |-> Null,
             favicon |-> IF resolve(scraped.favicon) # Null
                         THEN resolve(scraped.favicon)
                         ELSE "google-favicon-64"]

\* fetchMetadata(url), metadataFetcher.js:7-39: what the try block throws is
\* caught and answered with the fallback.
fetchMetadata(url, outcome) ==
    IF fetchMetadataTry(url, outcome) = Thrown THEN getFallbackMetadata(url)
    ELSE fetchMetadataTry(url, outcome)

\* -------------------------------------------------- responses of the gateway
Response(status, t) == [status |-> status, links |-> t]

\* insert([...]).select().single(): the new row gets the next id.
\* (an insert that stores nothing)
InsertNoRow(t, row) == t
InsertRow(t, row) == Append(t, row)

\* POST /api/links, links.js:164-210. dbOk: the insert succeeds (it fails on
\* a collection_id that names no collection). Trimming a note that is a number
\* throws, after the metadata fetch. collection_id is stored as received.
PostLink(t, user, body, outcome, dbOk) ==
    IF ~validateLinkInput(body).valid THEN Response(400, t)
    ELSE IF Field(body, "note") \in {JsNumber} THEN Response(500, t)
    ELSE LET metadata == fetchMetadata(body.url, outcome)
             note == Field(body, "note")
             linkData == [user_id |-> user, url |-> Trim(body.url),
                          note |-> IF IsString(note) THEN Trim(note) ELSE Str(""),
                          is_favorite |-> body.is_favorite,
                          collection_id |-> IF "collection_id" \in DOMAIN body
                                            THEN body.collection_id
                                            ELSE NoCollection, title |-> metadata.title,
                          favicon_url |-> metadata.favicon, updated_at |-> 0]
         IN IF dbOk THEN Response(201, InsertRow(t, linkData))
            ELSE Response(500, t)

\* .maybeSingle() over the matching ids: no row gives null, one row gives it,
\* several rows give an error and no data.
MaybeSingle(ids) ==
    IF Cardinality(ids) = 1
    THEN [data |-> CHOOSE id \in ids : TRUE, error |-> FALSE]
    ELSE [data |-> 0, error |-> Cardinality(ids) > 1]

\* .eq('user_id', user).eq('url', url)
WithUrl(t, user, url) ==
    {id \in 1..Len(t) : Owned(t, user, id) /\ t[id].url = url}

\* The duplicate lookup of GET /check-duplicate (62-67) and of POST /bulk
\* (240-245).
DuplicateLookup(t, user, url) == MaybeSingle(WithUrl(t, user, Trim(url)))

\* ------------------------------------------------- requests at the gateway
Sessions == {"s1", "s2"}     \* connections that can hold a request in flight
Idle == [busy |-> FALSE]
NoBulk == [active |-> FALSE]
NoChain == [id |-> 0, orig |-> FALSE, n |-> 0, open |-> FALSE]

Reply(op, status, user) ==
    [op |-> op, status |-> status, user |-> user, id |-> 0, url |-> Str(""),
     exists |-> FALSE, is_favorite |-> FALSE, current |-> FALSE,
     urls |-> <<>>, success |-> <<>>, failed |-> <<>>, duplicates |-> <<>>,
     body |-> Undefined, created |-> 0, lookups |-> 0, fetches |-> 0,
     before |-> <<>>, slug |-> Null, ids |-> {}, filters |-> AllView]
NoResp == Reply("none", 0, "")

\* ------------------------------------------------ components at rest
NoTimer == [pending |-> FALSE]
NoSent == [kind |-> "none"]
\* AddLinkForm.tsx:15-25
InitForm ==
    /\ form = [url |-> Str(""), duplicate |-> 0, allowDuplicate |-> FALSE,
               loading |-> FALSE]
    /\ formTimer = NoTimer
    /\ formChecks = {}
    /\ formSent = NoSent

\* The queries of useLinks.ts:14-41 and a mutation (useCreateLink, 44-58).
QueryKeys == {"links", "collections", "stats"}
MutationKeys == {"createLink"}
InitQueries ==
    attempts = [k \in QueryKeys \cup MutationKeys |-> [status |-> "idle", sent |-> 0]]

\* Dashboard.tsx:24-25, 62-65: both values empty, and the effect of the first
\* render has started a timer for the empty input.
InitSearchBox ==
    searchBox = [input |-> "", search |-> "", timers |-> {""}, keys |-> 0,
                 changes |-> 0]

InitUi == InitForm /\ InitQueries /\ InitSearchBox

\* ------------------------------------------------- client cache (useLinks.ts)
InitialRow(fav) ==
    [user_id |-> Owner, url |-> Str("https://a.com"), note |-> Str(""),
     is_favorite |-> fav, collection_id |-> NoCollection, title |-> "a",
     favicon_url |-> "icon", updated_at |-> 0]

NoData == [v \in ViewKeys |-> <<>>]

\* old.filter(l => l.id !== id) over every ['links', *] entry
RemoveFromViews(c, id) ==
    [v \in ViewKeys |-> SelectSeq(c[v], LAMBDA l : l.id # id)]

\* old.map(link => link.id === id ? { ...link, ...data } : link)
PatchViews(c, id, note) ==
    [v \in ViewKeys |->
        [i \in 1..Len(c[v]) |->
            IF c[v][i].id = id THEN [c[v][i] EXCEPT !.note = note] ELSE c[v][i]]]

\* old.map(link => link.id === id ? { ...link, is_favorite: !link.is_favorite } : link)
FlipViews(c, id) ==
    [v \in ViewKeys |->
        [i \in 1..Len(c[v]) |->
            IF c[v][i].id = id
            THEN [c[v][i] EXCEPT !.is_favorite = ~c[v][i].is_favorite]
            ELSE c[v][i]]]

\* [deletedLink, ...old] over every ['links', *] entry
PrependToViews(c, link) == [v \in ViewKeys |-> <<link>> \o c[v]]

\* The links some rendered card can hold: the records of the cached views.
Rendered == UNION {{cache[v][i] : i \in 1..Len(cache[v])} : v \in ViewKeys}

\* clearTimeout(undoTimeout): a fired or cleared handle is left alone.
ClearTimeout(ts, handle) == {tm \in ts : tm.tid # handle}

\* lastEvent: what the handler that ran last did, for the handlers the
\* properties below speak of.
Event(type, id) ==
    [type |-> type, id |-> id, kind |-> "", before |-> NoData,
     errorToast |-> FALSE]
Quiet == Event("other", 0)
Failure(kind, id, before, errorToast) ==
    [type |-> "failed", id |-> id, kind |-> kind, before |-> before,
     errorToast |-> errorToast]

InitClient ==
    /\ links \in [LinkIds -> {InitialRow(f) : f \in BOOLEAN}]
    /\ cache = [v \in ViewKeys |-> GetLinks(links, Owner, v)]
    /\ toggles = [s \in Sessions |-> Idle]
    /\ bulk = NoBulk
    /\ resp = NoResp
    /\ chain = NoChain
    /\ reqs = 0
    /\ collections = <<>>
    /\ InitUi
    /\ invalidated = {}
    /\ statsInvalid = FALSE
    /\ deletedLink = NoLink
    /\ undoTimeout = 0
    /\ timers = {}
    /\ nextTimer = 1
    /\ undoToasts = {}
    /\ cardReqs = {}
    /\ muts = {}
    /\ started = 0
    /\ ops = 0
    /\ delReqs = [l \in 1..(NLinks + MaxOps) |-> 0]
    /\ passed = {}
    /\ heldIn = [l \in 1..(NLinks + MaxOps) |-> {}]
    /\ undoRestored = {}
    /\ deferred = {}
    /\ committedOk = {}
    /\ lastEvent = Quiet

\* LinkCard.handleDelete up to its await: the DELETE request leaves at once.
CardDelete(link) ==
    /\ ops < MaxOps
    /\ link \in Rendered
    /\ \A cr \in cardReqs : cr.id # link.id
    /\ ops' = ops + 1
    /\ cardReqs' = cardReqs \cup {link}
    /\ delReqs' = [delReqs EXCEPT ![link.id] = @ + 1]
    /\ lastEvent' = Quiet
    /\ UNCHANGED <<links, cache, invalidated, statsInvalid, deletedLink,
                   undoTimeout, timers, nextTimer, undoToasts, muts, started,
                   passed, heldIn, undoRestored, deferred, committedOk>>
    /\ UNCHANGED gatewayVars

\* deleteWithUndo(link), useLinks.ts:162-199
DeleteWithUndo(link) ==
    /\ deletedLink' = link
    /\ timers' = ClearTimeout(timers, undoTimeout)
                    \cup {[tid |-> nextTimer, link |-> link.id]}
    /\ cache' = RemoveFromViews(cache, link.id)
    /\ undoToasts' = undoToasts \cup {link.id}
    /\ undoTimeout' = nextTimer
    /\ nextTimer' = nextTimer + 1
    /\ passed' = passed \cup {link.id}
    /\ heldIn' = [heldIn EXCEPT ![link.id] =
                    {v \in ViewKeys : link.id \in SeqIds(cache[v])}]
    /\ undoRestored' = undoRestored \ {link.id}
    /\ deferred' = deferred \ {link.id}

\* LinkCard.handleDelete after api.deleteLink resolved: onDeleted(), which the
\* Dashboard wires to deleteWithUndo(link).
CardDeleteOk(link) ==
    /\ link \in cardReqs
    /\ links' = DeleteRow(links, Owner, link.id)
    /\ cardReqs' = cardReqs \ {link}
    /\ DeleteWithUndo(link)
    /\ lastEvent' = Quiet
    /\ UNCHANGED <<invalidated, statsInvalid, muts, started, ops, delReqs,
                   committedOk>>
    /\ UNCHANGED gatewayVars

\* LinkCard.handleDelete when api.deleteLink rejected: toast.error only.
CardDeleteFail(link) ==
    /\ link \in cardReqs
    /\ cardReqs' = cardReqs \ {link}
    /\ lastEvent' = Failure("card", link.id, NoData, TRUE)
    /\ UNCHANGED <<links, cache, invalidated, statsInvalid, deletedLink,
                   undoTimeout, timers, nextTimer, undoToasts, muts, started,
                   ops, delReqs, passed, heldIn, undoRestored, deferred, committedOk>>
    /\ UNCHANGED gatewayVars

\* The Undo action of a 'Link deleted' toast, useLinks.ts:178-188. The toast
\* closes when its action is clicked; a toast that closes by itself only takes
\* this action away.
UndoClick(t) ==
    /\ t \in undoToasts
    /\ undoToasts' = undoToasts \ {t}
    /\ IF deletedLink # NoLink
       THEN /\ cache' = PrependToViews(cache, deletedLink)
            /\ deletedLink' = NoLink
            /\ timers' = ClearTimeout(timers, undoTimeout)
            /\ undoRestored' = undoRestored \cup {deletedLink.id}
            /\ lastEvent' = Event("undo", deletedLink.id)
       ELSE /\ UNCHANGED <<cache, deletedLink, timers, undoRestored>>
            /\ lastEvent' = Quiet
    /\ UNCHANGED <<links, invalidated, statsInvalid, undoTimeout, nextTimer,
                   cardReqs, muts, started, ops, delReqs, passed, heldIn, deferred,
                   committedOk>>
    /\ UNCHANGED gatewayVars

\* A useMutation call in flight: its variables, the context onMutate returned
\* and, for a batch, the requests still out and whether Promise.all rejected.
\* getQueriesData({ queryKey: ['links'] }): every cached view with its data
Snapshot(c) == [v \in ViewKeys |-> c[v]]

\* before: the cache as onMutate found it (history).
Mutation(kind, id, note) ==
    [mid |-> started + 1, kind |-> kind, id |-> id, note |-> note,
     previousLinks |-> Snapshot(cache), before |-> cache, ids |-> {}, pending |-> {}, rejected |-> FALSE,
     collectionId |-> NoCollection, url |-> Str("")]

Creation(url) ==
    [mid |-> started + 1, kind |-> "create", id |-> 0, note |-> Str(""),
     previousLinks |-> NoData, before |-> NoData, ids |-> {}, pending |-> {}, rejected |-> FALSE,
     collectionId |-> NoCollection, url |-> url]

Batch(kind, ids, collectionId) ==
    [mid |-> started + 1, kind |-> kind, id |-> 0, note |-> Str(""),
     previousLinks |-> NoData, before |-> NoData, ids |-> ids, pending |-> ids, rejected |-> FALSE,
     collectionId |-> collectionId, url |-> Str("")]

Single == {"update", "delete", "favorite"}

\* The setTimeout callback of deleteWithUndo, useLinks.ts:193-198, with
\* useDeleteLink's onMutate (cancelQueries, snapshot, optimistic removal) and
\* the DELETE request of its mutationFn.
TimerFire(tm) ==
    /\ tm \in timers
    /\ timers' = timers \ {tm}
    /\ IF deletedLink # NoLink /\ deletedLink.id = tm.link
       THEN /\ muts' = muts \cup {Mutation("delete", tm.link, Str(""))}
            /\ started' = started + 1
            /\ invalidated' = {}
            /\ cache' = RemoveFromViews(cache, tm.link)
            /\ delReqs' = [delReqs EXCEPT ![tm.link] = @ + 1]
            /\ deferred' = deferred \cup {tm.link}
            /\ deletedLink' = NoLink
       ELSE UNCHANGED <<muts, started, invalidated, cache, delReqs, deferred,
                        deletedLink>>
    /\ lastEvent' = Event("timer", tm.link)
    /\ UNCHANGED <<links, statsInvalid, undoTimeout, nextTimer, undoToasts,
                   cardReqs, ops, passed, heldIn, undoRestored, committedOk>>
    /\ UNCHANGED gatewayVars

\* useToggleFavorite.onMutate and the PATCH request of its mutationFn
\* (Dashboard: onToggleFavorite={() => toggleFavorite.mutate(link.id)}).
MutateFavorite(link) ==
    /\ ops < MaxOps
    /\ link \in Rendered
    /\ ops' = ops + 1
    /\ muts' = muts \cup {Mutation("favorite", link.id, Str(""))}
    /\ started' = started + 1
    /\ invalidated' = {}
    /\ cache' = FlipViews(cache, link.id)
    /\ lastEvent' = Quiet
    /\ UNCHANGED <<links, statsInvalid, deletedLink, undoTimeout, timers,
                   nextTimer, undoToasts, cardReqs, delReqs, passed, heldIn,
                   undoRestored, deferred, committedOk>>
    /\ UNCHANGED gatewayVars

\* useUpdateLink.onMutate with data {note} and the PATCH request.
MutateUpdate(link, note) ==
    /\ ops < MaxOps
    /\ link \in Rendered
    /\ ops' = ops + 1
    /\ muts' = muts \cup {Mutation("update", link.id, note)}
    /\ started' = started + 1
    /\ invalidated' = {}
    /\ cache' = PatchViews(cache, link.id, note)
    /\ lastEvent' = Quiet
    /\ UNCHANGED <<links, statsInvalid, deletedLink, undoTimeout, timers,
                   nextTimer, undoToasts, cardReqs, delReqs, passed, heldIn,
                   undoRestored, deferred, committedOk>>
    /\ UNCHANGED gatewayVars

\* The onError callbacks of useUpdateLink (81-87), useDeleteLink (112-117) and
\* useToggleFavorite (143-147): every snapshot entry is written back; update
\* and delete add toast.error.
\* (a rollback that writes back the unfiltered view only)
RestoreOneView(m) == [cache EXCEPT ![AllView] = m.previousLinks[AllView]]
RestoreSnapshot(m) == [v \in ViewKeys |-> m.previousLinks[v]]

ErrorToast(m) == m.kind \in {"update", "delete"}

\* onSettled of useUpdateLink and useToggleFavorite: invalidateQueries(['links']).
SettledInvalidates(m) == IF m.kind \in {"update", "favorite"} THEN ViewKeys ELSE {}

\* The gateway's answer to the request of mutation m.
ServerAnswer(m) ==
    CASE m.kind = "delete" ->
            [ok |-> TRUE, links |-> DeleteRow(links, Owner, m.id)]
      [] m.kind = "favorite" ->
            LET current == ToggleRead(links, Owner, m.id)
            IN IF ~current.found THEN [ok |-> FALSE, links |-> links]
               ELSE LET w == ToggleWrite(links, Owner, m.id, current.is_favorite)
                    IN [ok |-> w.ok, links |-> w.links]
      [] OTHER -> PatchLink(links, Owner, m.id, [f \in {"note"} |-> m.note])

\* The request of m reaches the gateway and its response the client:
\* onSuccess/onError, then onSettled.
MutSettle(m) ==
    /\ m \in muts
    /\ m.kind \in Single
    /\ muts' = muts \ {m}
    /\ LET r == ServerAnswer(m)
       IN /\ links' = r.links
          /\ IF r.ok
             THEN /\ UNCHANGED <<cache>>
                  /\ statsInvalid' = (statsInvalid \/ m.kind = "delete")
                  /\ committedOk' = IF m.kind = "delete"
                                    THEN committedOk \cup {m.id} ELSE committedOk
                  /\ lastEvent' = Quiet
             ELSE /\ cache' = RestoreSnapshot(m)
                  /\ UNCHANGED <<statsInvalid, committedOk>>
                  /\ lastEvent' = Failure(m.kind, m.id, m.before, ErrorToast(m))
    /\ invalidated' = invalidated \cup SettledInvalidates(m)
    /\ UNCHANGED <<deletedLink, undoTimeout, timers, nextTimer, undoToasts,
                   cardReqs, started, ops, delReqs, passed, heldIn, undoRestored,
                   deferred>>
    /\ UNCHANGED gatewayVars

\* The request of m fails before the gateway changes anything (network error,
\* 401, 500): onError, then onSettled.
MutFail(m) ==
    /\ m \in muts
    /\ m.kind \in Single
    /\ muts' = muts \ {m}
    /\ cache' = RestoreSnapshot(m)
    /\ invalidated' = invalidated \cup SettledInvalidates(m)
    /\ lastEvent' = Failure(m.kind, m.id, m.before, ErrorToast(m))
    /\ UNCHANGED <<links, statsInvalid, deletedLink, undoTimeout, timers,
                   nextTimer, undoToasts, cardReqs, started, ops, delReqs,
                   passed, heldIn, undoRestored, deferred, committedOk>>
    /\ UNCHANGED gatewayVars

\* The refetch of an invalidated view arrives: useLinks' queryFn.
Refetch(v) ==
    /\ v \in invalidated
    /\ invalidated' = invalidated \ {v}
    /\ cache' = [cache EXCEPT ![v] = GetLinks(links, Owner, v)]
    /\ lastEvent' = Quiet
    /\ UNCHANGED <<links, statsInvalid, deletedLink, undoTimeout, timers,
                   nextTimer, undoToasts, cardReqs, muts, started, ops,
                   delReqs, passed, heldIn, undoRestored, deferred, committedOk>>
    /\ UNCHANGED gatewayVars

\* useCreateLink: no onMutate; the POST request leaves.
MutateCreate(url) ==
    /\ ops < MaxOps
    /\ ops' = ops + 1
    /\ muts' = muts \cup {Creation(url)}
    /\ started' = started + 1
    /\ lastEvent' = Quiet
    /\ UNCHANGED <<links, cache, invalidated, statsInvalid, deletedLink,
                   undoTimeout, timers, nextTimer, undoToasts, cardReqs,
                   delReqs, passed, heldIn, undoRestored, deferred, committedOk>>
    /\ UNCHANGED gatewayVars

\* The POST of a create reaches the gateway and is answered: onSuccess
\* invalidates ['links'] and ['stats'], onError is toast.error.
CreateSettle(m, outcome) ==
    /\ m \in muts
    /\ m.kind = "create"
    /\ muts' = muts \ {m}
    /\ LET r == PostLink(links, Owner, [url |-> m.url, is_favorite |-> FALSE],
                         outcome, TRUE)
       IN /\ links' = r.links
          /\ IF r.status = 201
             THEN /\ invalidated' = ViewKeys
                  /\ statsInvalid' = TRUE
                  /\ lastEvent' = Quiet
             ELSE /\ UNCHANGED <<invalidated, statsInvalid>>
                  /\ lastEvent' = Failure("create", 0, NoData, TRUE)
    /\ UNCHANGED <<cache, deletedLink, undoTimeout, timers, nextTimer,
                   undoToasts, cardReqs, started, ops, delReqs, passed, heldIn,
                   undoRestored, deferred, committedOk>>
    /\ UNCHANGED gatewayVars

CreateFail(m) ==
    /\ m \in muts
    /\ m.kind = "create"
    /\ muts' = muts \ {m}
    /\ lastEvent' = Failure("create", 0, NoData, TRUE)
    /\ UNCHANGED <<links, cache, invalidated, statsInvalid, deletedLink,
                   undoTimeout, timers, nextTimer, undoToasts, cardReqs,
                   started, ops, delReqs, passed, heldIn, undoRestored, deferred, committedOk>>
    /\ UNCHANGED gatewayVars

\* useBatchActions: batchDelete.mutate(ids) and batchMoveToCollection.mutate:
\* ids.map(...) sends one request per id at once.
BatchStart(kind, ids, collectionId) ==
    /\ ops < MaxOps
    /\ ids # {}
    /\ ids \subseteq SeqIds(cache[AllView]) \cup SeqIds(cache[FavView])
    /\ ops' = ops + 1
    /\ muts' = muts \cup {Batch(kind, ids, collectionId)}
    /\ started' = started + 1
    /\ delReqs' = [l \in DOMAIN delReqs |->
                     IF kind = "batchDelete" /\ l \in ids
                     THEN delReqs[l] + 1 ELSE delReqs[l]]
    /\ lastEvent' = Quiet
    /\ UNCHANGED <<links, cache, invalidated, statsInvalid, deletedLink,
                   undoTimeout, timers, nextTimer, undoToasts, cardReqs,
                   passed, heldIn, undoRestored, deferred, committedOk>>
    /\ UNCHANGED gatewayVars

\* Promise.all over the requests of a batch: the first rejection rejects the
\* mutation (onError: toast.error for batchDelete, nothing for
\* batchMoveToCollection); the last fulfilment, none having failed, fulfils it
\* (onSuccess: invalidateQueries).
BatchRejectNotifies(m) == m.kind = "batchDelete"

BatchAfter(m, id, ok) ==
    LET left == m.pending \ {id}
        rejects == ~ok /\ ~m.rejected
        fulfils == ok /\ ~m.rejected /\ left = {}
    IN /\ muts' = IF left = {} THEN muts \ {m}
                  ELSE (muts \ {m}) \cup
                       {[m EXCEPT !.pending = left, !.rejected = @ \/ ~ok]}
       /\ invalidated' = IF fulfils THEN ViewKeys ELSE invalidated
       /\ statsInvalid' = (statsInvalid \/ (fulfils /\ m.kind = "batchDelete"))
       /\ lastEvent' = IF rejects
                       THEN Failure(m.kind, 0, NoData, BatchRejectNotifies(m))
                       ELSE Quiet

\* One request of a batch reaches the gateway and is answered.
BatchReqSettle(m, id) ==
    /\ m \in muts
    /\ m.kind \in {"batchDelete", "batchMove"}
    /\ id \in m.pending
    /\ LET r == IF m.kind = "batchDelete"
                THEN [ok |-> TRUE, links |-> DeleteRow(links, Owner, id)]
                ELSE PatchLink(links, Owner, id,
                               [f \in {"collection_id"} |-> m.collectionId])
       IN /\ links' = r.links
          /\ BatchAfter(m, id, r.ok)
    /\ UNCHANGED <<cache, deletedLink, undoTimeout, timers, nextTimer,
                   undoToasts, cardReqs, started, ops, delReqs, passed, heldIn,
                   undoRestored, deferred, committedOk>>
    /\ UNCHANGED gatewayVars

\* One request of a batch fails before the gateway changes anything.
BatchReqFail(m, id) ==
    /\ m \in muts
    /\ m.kind \in {"batchDelete", "batchMove"}
    /\ id \in m.pending
    /\ BatchAfter(m, id, FALSE)
    /\ UNCHANGED <<links, cache, deletedLink, undoTimeout, timers, nextTimer,
                   undoToasts, cardReqs, started, ops, delReqs, passed, heldIn,
                   undoRestored, deferred, committedOk>>
    /\ UNCHANGED gatewayVars

CreateUrls == {Str("https://b.com"), Str(MalformedBody)}

\* The delete flow and the optimistic mutations: the handlers that write the
\* cached views themselves.
NextSync ==
    \/ \E link \in Rendered : CardDelete(link)
    \/ \E link \in cardReqs : CardDeleteOk(link)
    \/ \E link \in cardReqs : CardDeleteFail(link)
    \/ \E t \in undoToasts : UndoClick(t)
    \/ \E tm \in timers : TimerFire(tm)
    \/ \E link \in Rendered : MutateFavorite(link)
    \/ \E link \in Rendered : MutateUpdate(link, Str("n"))
    \/ \E m \in muts : MutSettle(m)
    \/ \E m \in muts : MutFail(m)
    \/ \E v \in ViewKeys : Refetch(v)

SpecSync == InitClient /\ [][NextSync]_vars

\* Every client handler, the create and batch hooks included.
NextClient ==
    \/ \E link \in Rendered : CardDelete(link)
    \/ \E link \in cardReqs : CardDeleteOk(link)
    \/ \E link \in cardReqs : CardDeleteFail(link)
    \/ \E t \in undoToasts : UndoClick(t)
    \/ \E tm \in timers : TimerFire(tm)
    \/ \E link \in Rendered : MutateFavorite(link)
    \/ \E link \in Rendered : MutateUpdate(link, Str("n"))
    \/ \E m \in muts : MutSettle(m)
    \/ \E m \in muts : MutFail(m)
    \/ \E v \in ViewKeys : Refetch(v)
    \/ \E url \in CreateUrls : MutateCreate(url)
    \/ \E m \in muts, outcome \in ScrapeOutcomes : CreateSettle(m, outcome)
    \/ \E m \in muts : CreateFail(m)
    \/ \E ids \in SUBSET (1..Len(links)) : BatchStart("batchDelete", ids, NoCollection)
    \/ \E ids \in SUBSET (1..Len(links)) : BatchStart("batchMove", ids, 1)
    \/ \E m \in muts, id \in 1..Len(links) : BatchReqSettle(m, id)
    \/ \E m \in muts, id \in 1..Len(links) : BatchReqFail(m, id)

SpecClient == InitClient /\ [][NextClient]_vars

\* ------------------------------------------------ gateway runs (links.js)
InitServer ==
    /\ links = <<>>
    /\ cache = NoData
    /\ toggles = [s \in Sessions |-> Idle]
    /\ bulk = NoBulk
    /\ resp = NoResp
    /\ chain = NoChain
    /\ reqs = 0
    /\ collections = <<>>
    /\ InitUi
    /\ invalidated = {}
    /\ statsInvalid = FALSE
    /\ deletedLink = NoLink
    /\ undoTimeout = 0
    /\ timers = {}
    /\ nextTimer = 1
    /\ undoToasts = {}
    /\ cardReqs = {}
    /\ muts = {}
    /\ started = 0
    /\ ops = 0
    /\ delReqs = [l \in 1..(NLinks + MaxOps) |-> 0]
    /\ passed = {}
    /\ heldIn = [l \in 1..(NLinks + MaxOps) |-> {}]
    /\ undoRestored = {}
    /\ deferred = {}
    /\ committedOk = {}
    /\ lastEvent = Quiet

\* A request arrives, within the number of requests of a run.
Arrives == reqs < MaxReqs /\ reqs' = reqs + 1

\* Rows the bulk ingestion in progress may still insert.
Reserved == IF bulk = NoBulk THEN 0 ELSE Len(bulk.urls) - bulk.i + 1

\* Any write to is_favorite of the chain's link outside the chain ends it.
ChainAfterWrite(id) == IF chain.id = id THEN NoChain ELSE chain

\* collection_id REFERENCES collections(id): an insert or update that sets
\* a collection_id naming no collection is refused by the database.
ReferenceOk(cs, updates) ==
    "collection_id" \in DOMAIN updates =>
        \/ updates.collection_id = NoCollection
        \/ Exists(cs, updates.collection_id)

\* POST /api/links
Ingest(user, body, outcome, dbOk) ==
    /\ Arrives
    /\ Len(links) + Reserved < MaxRows
    /\ LET r == PostLink(links, user, body, outcome,
                         dbOk /\ ReferenceOk(collections, body))
       IN /\ links' = r.links
          /\ resp' = [Reply("post", r.status, user) EXCEPT
                        !.url = IF IsString(Field(body, "url")) THEN body.url
                                ELSE Str(""),
                        !.id = IF r.status = 201 THEN Len(r.links) ELSE 0,
                        !.body = body, !.before = links,
                        !.fetches = IF r.status = 400 THEN 0 ELSE 1,
                        !.created = Len(r.links) - Len(links)]
    /\ UNCHANGED <<toggles, bulk, chain>>
    /\ UNCHANGED collections
    /\ UNCHANGED clientVars

\* POST /api/links with a body of url and is_favorite
Post(user, url, fav, outcome, dbOk) ==
    Ingest(user, [url |-> url, is_favorite |-> fav], outcome, dbOk)

\* GET /api/links/check-duplicate?url=, links.js:55-79
CheckDuplicate(user, url) ==
    /\ Arrives
    /\ LET found == DuplicateLookup(links, user, url)
       IN resp' = IF url.body = BlankBody
                  THEN [Reply("checkDuplicate", 400, user) EXCEPT !.url = url]
                  ELSE IF found.error
                  THEN [Reply("checkDuplicate", 500, user) EXCEPT !.url = url]
                  ELSE [Reply("checkDuplicate", 200, user) EXCEPT
                          !.url = url, !.exists = (found.data # 0),
                          !.id = found.data]
    /\ UNCHANGED <<links, toggles, bulk, chain>>
    /\ UNCHANGED collections
    /\ UNCHANGED clientVars

\* PATCH /api/links/:id/favorite up to its first await: the read (378-387).
ToggleBegin(s, user, id) ==
    /\ Arrives
    /\ toggles[s] = Idle
    /\ LET current == ToggleRead(links, user, id)
           others == \E o \in Sessions : toggles[o] # Idle /\ toggles[o].id = id
       IN IF ~current.found
          THEN /\ resp' = [Reply("toggle", 404, user) EXCEPT
                             !.id = id, !.before = links]
               /\ UNCHANGED <<toggles, chain>>
          ELSE /\ toggles' = [toggles EXCEPT ![s] =
                                [busy |-> TRUE, user |-> user, id |-> id,
                                 current |-> current.is_favorite]]
               /\ chain' = IF others THEN ChainAfterWrite(id)
                           ELSE IF chain.id = id /\ chain.n = 1 /\ ~chain.open
                           THEN [chain EXCEPT !.open = TRUE]
                           ELSE [id |-> id, orig |-> current.is_favorite,
                                 n |-> 0, open |-> TRUE]
               /\ UNCHANGED resp
    /\ UNCHANGED <<links, bulk>>
    /\ UNCHANGED collections
    /\ UNCHANGED clientVars

\* PATCH /api/links/:id/favorite from its read on: the write (390-400).
ToggleEnd(s) ==
    /\ toggles[s] # Idle
    /\ LET q == toggles[s]
           w == ToggleWrite(links, q.user, q.id, q.current)
       IN /\ links' = w.links
          /\ resp' = [Reply("toggle", IF w.ok THEN 200 ELSE 500, q.user) EXCEPT
                        !.id = q.id, !.current = q.current,
                        !.is_favorite = w.is_favorite, !.before = links]
          /\ chain' = IF chain.id = q.id /\ chain.open /\ w.ok
                      THEN [chain EXCEPT !.n = @ + 1, !.open = FALSE]
                      ELSE ChainAfterWrite(q.id)
    /\ toggles' = [toggles EXCEPT ![s] = Idle]
    /\ UNCHANGED <<bulk, reqs>>
    /\ UNCHANGED collections
    /\ UNCHANGED clientVars

\* PATCH /api/links/:id
Patch(user, id, body) ==
    /\ Arrives
    /\ LET r == IF ReferenceOk(collections, PatchUpdates(body))
                THEN PatchLink(links, user, id, body)
                ELSE [ok |-> FALSE, links |-> links]
       IN /\ links' = r.links
          /\ resp' = [Reply("patch", IF r.ok THEN 200 ELSE 500, user) EXCEPT
                        !.id = id, !.before = links, !.body = body]
          /\ chain' = IF r.ok /\ "is_favorite" \in DOMAIN body
                      THEN ChainAfterWrite(id) ELSE chain
    /\ UNCHANGED <<toggles, bulk>>
    /\ UNCHANGED collections
    /\ UNCHANGED clientVars

\* DELETE /api/links/:id
Delete(user, id) ==
    /\ Arrives
    /\ links' = DeleteRow(links, user, id)
    /\ resp' = [Reply("delete", 200, user) EXCEPT !.id = id, !.before = links]
    /\ chain' = IF Owned(links, user, id) THEN ChainAfterWrite(id) ELSE chain
    /\ UNCHANGED <<toggles, bulk>>
    /\ UNCHANGED collections
    /\ UNCHANGED clientVars

\* GET /api/links, links.js:11-49
List(user, filters) ==
    /\ Arrives
    /\ resp' = [Reply("list", 200, user) EXCEPT
                  !.ids = SeqIds(GetLinks(links, user, filters)),
                  !.filters = filters]
    /\ UNCHANGED <<links, toggles, bulk, chain>>
    /\ UNCHANGED collections
    /\ UNCHANGED clientVars

\* The rows GET /api/links/stats (85-114) counts and GET /api/links/export
\* (120-158) returns: .eq('user_id', req.user.id)
OwnRows(t, user) == {id \in 1..Len(t) : Owned(t, user, id)}

\* GET /api/links/stats
Stats(user) ==
    /\ Arrives
    /\ resp' = [Reply("stats", 200, user) EXCEPT !.ids = OwnRows(links, user)]
    /\ UNCHANGED <<links, toggles, bulk, chain>>
    /\ UNCHANGED collections
    /\ UNCHANGED clientVars

\* GET /api/links/export
Export(user) ==
    /\ Arrives
    /\ resp' = [Reply("export", 200, user) EXCEPT !.ids = OwnRows(links, user)]
    /\ UNCHANGED <<links, toggles, bulk, chain>>
    /\ UNCHANGED collections
    /\ UNCHANGED clientVars

\* ---------------------------------------------- POST /api/links/bulk (216-284)
\* typeof urlItem === 'string' ? urlItem : urlItem.url, for an item that is
\* not null (a number has no url property).
ItemUrl(item) ==
    IF IsString(item) THEN item
    ELSE IF "url" \in DOMAIN item THEN item.url ELSE Undefined

\* The request up to the loop: the checks of urls (220-226) and the empty
\* results (228-232).
\* A JSON array, among the values a request body can hold for urls.
ArrayOf(items) == [array |-> items]
IsArray(v) == "array" \in DOMAIN v
Items(v) == IF IsArray(v) THEN v.array ELSE <<>>

\* (a check of the array and of its being non-empty, without the upper limit)
BulkRejectsEmptyOnly(urls) == ~IsArray(urls) \/ Len(urls.array) = 0
\* !Array.isArray(urls) || urls.length === 0 (220), urls.length > 20 (224)
BulkRejects(urls) ==
    ~IsArray(urls) \/ Len(urls.array) = 0 \/ Len(urls.array) > MaxUrls

BulkStart(user, urls) ==
    /\ Arrives
    /\ bulk = NoBulk
    /\ Len(Items(urls)) <= MaxUrls => Len(links) + Len(Items(urls)) <= MaxRows
    /\ IF BulkRejects(urls)
       THEN /\ resp' = [Reply("bulk", 400, user) EXCEPT
                          !.urls = Items(urls), !.body = urls]
            /\ UNCHANGED bulk
       ELSE /\ bulk' = [active |-> TRUE, user |-> user, urls |-> urls.array,
                        i |-> 1, stage |-> "check", had |-> {},
                        success |-> <<>>, failed |-> <<>>, duplicates |-> <<>>,
                        body |-> urls, created |-> 0, lookups |-> 0,
                        fetches |-> 0]
            /\ UNCHANGED resp
    /\ UNCHANGED <<links, toggles, chain>>
    /\ UNCHANGED collections
    /\ UNCHANGED clientVars

\* The end of an iteration: the next item, or res.status(201).json(results)
\* after the last one.
BulkAdvance(b) ==
    IF b.i < Len(b.urls)
    THEN /\ bulk' = [b EXCEPT !.i = @ + 1, !.stage = "check", !.had = {}]
         /\ UNCHANGED resp
    ELSE /\ bulk' = NoBulk
         /\ resp' = [Reply("bulk", 201, b.user) EXCEPT
                       !.urls = b.urls, !.success = b.success,
                       !.failed = b.failed, !.duplicates = b.duplicates,
                       !.body = b.body, !.created = b.created,
                       !.lookups = b.lookups, !.fetches = b.fetches]

\* An iteration up to the answer of its duplicate lookup (235-250). Reading
\* the url of a null item throws outside the iteration's try: the request ends
\* in the handler's catch. Trimming a url that is no string throws inside it.
\* The lookup's error is not read: several matching rows are no match.
BulkCheck ==
    /\ bulk # NoBulk
    /\ bulk.stage = "check"
    /\ LET item == bulk.urls[bulk.i]
       IN IF item = JsNull
          THEN /\ bulk' = NoBulk
               /\ resp' = [Reply("bulk", 500, bulk.user) EXCEPT
                             !.urls = bulk.urls, !.body = bulk.body,
                             !.created = bulk.created,
                             !.lookups = bulk.lookups,
                             !.fetches = bulk.fetches]
          ELSE LET url == ItemUrl(item)
               IN IF ~IsString(url)
                  THEN BulkAdvance([bulk EXCEPT !.failed =
                          Append(@, [url |-> url, pos |-> bulk.i])])
                  ELSE LET existing == DuplicateLookup(links, bulk.user, url).data
                       IN IF existing # 0
                          THEN BulkAdvance([bulk EXCEPT
                                  !.lookups = @ + 1,
                                  !.duplicates =
                                     Append(@, [url |-> url, id |-> existing,
                                                pos |-> bulk.i])])
                          ELSE /\ bulk' = [bulk EXCEPT
                                    !.stage = "insert",
                                    !.lookups = @ + 1,
                                    !.had = WithUrl(links, bulk.user, Trim(url))]
                               /\ UNCHANGED resp
    /\ UNCHANGED <<links, toggles, chain, reqs>>
    /\ UNCHANGED collections
    /\ UNCHANGED clientVars

\* The rest of an iteration: fetchMetadata and the insert (252-276).
BulkInsert(outcome, dbOk) ==
    /\ bulk # NoBulk
    /\ bulk.stage = "insert"
    /\ LET url == ItemUrl(bulk.urls[bulk.i])
           metadata == fetchMetadata(url, outcome)
           row == [user_id |-> bulk.user, url |-> Trim(url), note |-> Str(""),
                   is_favorite |-> FALSE, collection_id |-> NoCollection,
                   title |-> metadata.title, favicon_url |-> metadata.favicon,
                   updated_at |-> 0]
       IN IF dbOk
          THEN /\ links' = InsertRow(links, row)
               /\ BulkAdvance([bulk EXCEPT
                     !.fetches = @ + 1,
                     !.created = @ + Len(links') - Len(links),
                     !.success =
                        Append(@, [id |-> Len(links) + 1, url |-> Trim(url),
                                   pos |-> bulk.i, had |-> bulk.had])])
          ELSE /\ UNCHANGED links
               /\ BulkAdvance([bulk EXCEPT
                     !.fetches = @ + 1,
                     !.failed = Append(@, [url |-> url, pos |-> bulk.i])])
    /\ UNCHANGED <<toggles, chain, reqs>>
    /\ UNCHANGED collections
    /\ UNCHANGED clientVars

\* ------------------------------------------------- collections.js, schema
NoSlug == Null
\* crypto.randomBytes(8).toString('hex')
Slugs == {"slug1", "slug2"}

\* (a foreign key that deletes the referencing rows)
Cascade(t, cid) ==
    [i \in 1..Len(t) |->
        IF t[i] # NoRow /\ t[i].collection_id = cid THEN NoRow ELSE t[i]]

\* ON DELETE SET NULL of useful_links.collection_id (schema, line 21)
SetNull(t, cid) ==
    [i \in 1..Len(t) |->
        IF t[i] # NoRow /\ t[i].collection_id = cid
        THEN Touch([t[i] EXCEPT !.collection_id = NoCollection]) ELSE t[i]]

\* share_slug TEXT UNIQUE: no other collection holds the slug
SlugFree(cs, id, slug) ==
    \A c \in 1..Len(cs) : (c # id /\ cs[c] # NoRow) => cs[c].share_slug # slug

\* (a revoke that clears the flag only)
RevokeFlagOnly(row) == [row EXCEPT !.is_public = FALSE]
\* update({ is_public: false, share_slug: null })
RevokeRow(row) == [row EXCEPT !.is_public = FALSE, !.share_slug = NoSlug]

\* (a share that keeps the slug of a collection already shared)
ShareKeepsSlug(row, slug) ==
    [row EXCEPT !.is_public = TRUE,
                !.share_slug = IF @ = NoSlug THEN slug ELSE @]
\* update({ is_public: true, share_slug: slug })
ShareRow(row, slug) == [row EXCEPT !.is_public = TRUE, !.share_slug = slug]

\* POST /api/collections, collections.js:107-132
CollCreate(user, name) ==
    /\ Arrives
    /\ Len(collections) < MaxColls
    /\ IF Trim(name).body = BlankBody
       THEN /\ resp' = Reply("collCreate", 400, user)
            /\ UNCHANGED collections
       ELSE /\ collections' = Append(collections,
                   [user_id |-> user, name |-> Trim(name),
                    is_public |-> FALSE, share_slug |-> NoSlug])
            /\ resp' = [Reply("collCreate", 201, user) EXCEPT
                          !.id = Len(collections) + 1]
    /\ UNCHANGED <<links, toggles, bulk, chain>>
    /\ UNCHANGED clientVars

\* PATCH /api/collections/:id, collections.js:138-164
CollUpdate(user, id, name) ==
    /\ Arrives
    /\ IF Owned(collections, user, id)
       THEN /\ collections' = [collections EXCEPT ![id].name = Trim(name)]
            /\ resp' = [Reply("collUpdate", 200, user) EXCEPT !.id = id]
       ELSE /\ resp' = [Reply("collUpdate", 500, user) EXCEPT !.id = id]
            /\ UNCHANGED collections
    /\ UNCHANGED <<links, toggles, bulk, chain>>
    /\ UNCHANGED clientVars

\* POST /api/collections/:id/share, collections.js:170-198
CollShare(user, id, slug) ==
    /\ Arrives
    /\ IF Owned(collections, user, id) /\ SlugFree(collections, id, slug)
       THEN /\ collections' = [collections EXCEPT ![id] = ShareRow(@, slug)]
            /\ resp' = [Reply("collShare", 200, user) EXCEPT
                          !.id = id, !.slug = slug]
       ELSE /\ resp' = [Reply("collShare", 500, user) EXCEPT
                          !.id = id, !.slug = slug]
            /\ UNCHANGED collections
    /\ UNCHANGED <<links, toggles, bulk, chain>>
    /\ UNCHANGED clientVars

\* DELETE /api/collections/:id/share, collections.js:204-226
CollRevoke(user, id) ==
    /\ Arrives
    /\ IF Owned(collections, user, id)
       THEN /\ collections' = [collections EXCEPT ![id] = RevokeRow(@)]
            /\ resp' = [Reply("collRevoke", 200, user) EXCEPT
                          !.id = id, !.slug = collections[id].share_slug]
       ELSE /\ resp' = [Reply("collRevoke", 500, user) EXCEPT !.id = id]
            /\ UNCHANGED collections
    /\ UNCHANGED <<links, toggles, bulk, chain>>
    /\ UNCHANGED clientVars

\* DELETE /api/collections/:id, collections.js:232-249; the links that
\* reference the deleted collection are set to no collection by the database.
CollDelete(user, id) ==
    /\ Arrives
    /\ IF Owned(collections, user, id)
       THEN /\ collections' = [collections EXCEPT ![id] = NoRow]
            /\ links' = SetNull(links, id)
       ELSE UNCHANGED <<collections, links>>
    /\ resp' = [Reply("collDelete", 200, user) EXCEPT
                  !.id = id, !.before = links,
                  !.exists = Owned(collections, user, id)]
    /\ UNCHANGED <<toggles, bulk, chain>>
    /\ UNCHANGED clientVars

\* ------------------------------------------------------------ gateway runs
PaddedA == [pad |-> TRUE, body |-> "https://a.com"]
Ids == 1..MaxRows
FavoriteBodies == {[f \in {"is_favorite"} |-> v] : v \in BOOLEAN}

\* Favorite toggles among the other writers of is_favorite.
NextToggle ==
    \/ \E u \in Users, dbOk \in BOOLEAN :
          Post(u, Str("https://a.com"), FALSE, "titled", dbOk)
    \/ \E s \in Sessions, u \in Users, id \in Ids : ToggleBegin(s, u, id)
    \/ \E s \in Sessions : ToggleEnd(s)
    \/ \E u \in Users, id \in Ids, body \in FavoriteBodies : Patch(u, id, body)
    \/ \E u \in Users, id \in Ids : Delete(u, id)

SpecToggle == InitServer /\ [][NextToggle]_vars

PostUrls == {Str("https://a.com"), PaddedA, Str("https://b.com"),
             Str(MalformedBody), Str(BlankBody)}

\* Saving links and asking whether a URL is saved.
NextLinks ==
    \/ \E u \in Users, url \in PostUrls, outcome \in ScrapeOutcomes, dbOk \in BOOLEAN :
          Post(u, url, FALSE, outcome, dbOk)
    \/ \E u \in Users, url \in PostUrls : CheckDuplicate(u, url)
    \/ \E u \in Users, id \in Ids : Delete(u, id)

SpecLinks == InitServer /\ [][NextLinks]_vars

BulkItems == {Str("https://a.com"), [url |-> PaddedA], Str(MalformedBody),
              JsNull, JsNumber}
TooMany == [i \in 1..(MaxUrls + 1) |-> Str("https://a.com")]
Batches == UNION {[1..n -> BulkItems] : n \in 0..MaxBatch} \cup {TooMany}
\* urls missing, null, a number, a string
NotArrays == {Undefined, JsNull, JsNumber, Str("https://a.com")}
BulkBodies == {ArrayOf(b) : b \in Batches} \cup NotArrays

\* Bulk ingestion among single saves.
NextBulk ==
    \/ \E u \in Users, dbOk \in BOOLEAN :
          Post(u, Str("https://a.com"), FALSE, "titled", dbOk)
    \/ \E u \in Users, urls \in BulkBodies : BulkStart(u, urls)
    \/ BulkCheck
    \/ \E outcome \in ScrapeOutcomes, dbOk \in BOOLEAN : BulkInsert(outcome, dbOk)

SpecBulk == InitServer /\ [][NextBulk]_vars

BatchItems == {Str("https://a.com"), Str(MalformedBody), JsNumber}
BatchBodies ==
    {ArrayOf(b) : b \in UNION {[1..n -> BatchItems] : n \in 0..MaxBatch}}
        \cup {ArrayOf(TooMany)} \cup NotArrays

\* The bulk ingestion of one caller, with one link saved beforehand or between.
NextBatch ==
    \/ Post(Owner, Str("https://a.com"), FALSE, "titled", TRUE)
    \/ \E urls \in BatchBodies : BulkStart(Owner, urls)
    \/ BulkCheck
    \/ \E outcome \in {"titled", "throws"}, dbOk \in BOOLEAN :
          BulkInsert(outcome, dbOk)

SpecBatch == InitServer /\ [][NextBatch]_vars

\* Links already stored, no collection yet.
InitStored ==
    /\ links = [l \in LinkIds |-> InitialRow(FALSE)]
    /\ cache = NoData
    /\ toggles = [s \in Sessions |-> Idle]
    /\ bulk = NoBulk
    /\ resp = NoResp
    /\ chain = NoChain
    /\ reqs = 0
    /\ collections = <<>>
    /\ InitUi
    /\ invalidated = {}
    /\ statsInvalid = FALSE
    /\ deletedLink = NoLink
    /\ undoTimeout = 0
    /\ timers = {}
    /\ nextTimer = 1
    /\ undoToasts = {}
    /\ cardReqs = {}
    /\ muts = {}
    /\ started = 0
    /\ ops = 0
    /\ delReqs = [l \in 1..(NLinks + MaxOps) |-> 0]
    /\ passed = {}
    /\ heldIn = [l \in 1..(NLinks + MaxOps) |-> {}]
    /\ undoRestored = {}
    /\ deferred = {}
    /\ committedOk = {}
    /\ lastEvent = Quiet

CollIds == 1..MaxColls
CollNames == {Str("c"), [pad |-> TRUE, body |-> "d"], Str(BlankBody)}
CollectionBodies == {[f \in {"collection_id"} |-> c] : c \in CollIds \cup {NoCollection}}

\* Collections and the links filed in them.
NextCollections ==
    \/ \E u \in Users, name \in CollNames : CollCreate(u, name)
    \/ \E u \in Users, id \in CollIds : CollUpdate(u, id, Str("e"))
    \/ \E u \in Users, id \in CollIds, slug \in Slugs : CollShare(u, id, slug)
    \/ \E u \in Users, id \in CollIds : CollRevoke(u, id)
    \/ \E u \in Users, id \in CollIds : CollDelete(u, id)
    \/ \E id \in LinkIds, body \in CollectionBodies : Patch(Owner, id, body)

SpecCollections == InitStored /\ [][NextCollections]_vars

\* Rows whose text columns are spelled out, for the search filter.
SearchRows ==
    {[user_id |-> u, url |-> Text(<<"b", "b">>), note |-> Text(n),
      is_favorite |-> fav, collection_id |-> NoCollection, title |-> Text(t),
      description |-> d, favicon_url |-> "icon", updated_at |-> 0] :
        u \in Users, n \in {<<>>, <<"a">>}, fav \in BOOLEAN,
        t \in {<<"A", "b">>, <<"b">>}, d \in {NullText, Text(<<"_">>)}}
Searches == {<<>>, <<"a">>, <<"a", "B">>, <<"_">>, <<"a", "%", "b">>, <<"c">>}
SearchFilters ==
    {[favorite |-> f, search |-> q] : f \in BOOLEAN, q \in Searches}

InitSearch ==
    /\ links \in [LinkIds -> SearchRows]
    /\ cache = NoData
    /\ toggles = [s \in Sessions |-> Idle]
    /\ bulk = NoBulk
    /\ resp = NoResp
    /\ chain = NoChain
    /\ reqs = 0
    /\ collections = <<>>
    /\ InitUi
    /\ invalidated = {}
    /\ statsInvalid = FALSE
    /\ deletedLink = NoLink
    /\ undoTimeout = 0
    /\ timers = {}
    /\ nextTimer = 1
    /\ undoToasts = {}
    /\ cardReqs = {}
    /\ muts = {}
    /\ started = 0
    /\ ops = 0
    /\ delReqs = [l \in 1..(NLinks + MaxOps) |-> 0]
    /\ passed = {}
    /\ heldIn = [l \in 1..(NLinks + MaxOps) |-> {}]
    /\ undoRestored = {}
    /\ deferred = {}
    /\ committedOk = {}
    /\ lastEvent = Quiet

\* List queries with search text over stored links.
NextSearch ==
    \/ \E u \in Users, filters \in SearchFilters : List(u, filters)
    \/ \E u \in Users, id \in LinkIds : Delete(u, id)

SpecSearch == InitSearch /\ [][NextSearch]_vars

\* Two callers at the links gateway.
NextOwners ==
    \/ \E u \in Users : Post(u, Str("https://a.com"), FALSE, "titled", TRUE)
    \/ \E u \in Users : BulkStart(u, ArrayOf(<<Str("https://a.com")>>))
    \/ BulkCheck
    \/ BulkInsert("titled", TRUE)
    \/ \E u \in Users, filters \in ViewKeys : List(u, filters)
    \/ \E u \in Users : CheckDuplicate(u, Str("https://a.com"))
    \/ \E u \in Users : Stats(u)
    \/ \E u \in Users : Export(u)
    \/ \E u \in Users, id \in Ids, body \in FavoriteBodies : Patch(u, id, body)
    \/ \E s \in Sessions, u \in Users, id \in Ids : ToggleBegin(s, u, id)
    \/ \E s \in Sessions : ToggleEnd(s)
    \/ \E u \in Users, id \in Ids : Delete(u, id)

SpecOwners == InitServer /\ [][NextOwners]_vars

PatchFields == {"note", "is_favorite", "collection_id"}
PatchNotes == {[pad |-> TRUE, body |-> "m"]}
PatchFlags == {TRUE}
PatchCollections == {NoCollection, 1}
PatchBodies ==
    {[note |-> n] : n \in PatchNotes}
      \cup {[is_favorite |-> v] : v \in PatchFlags}
      \cup {[collection_id |-> c] : c \in PatchCollections}
      \cup {[note |-> n, is_favorite |-> v] : n \in PatchNotes, v \in PatchFlags}
      \cup {[note |-> n, collection_id |-> c] :
               n \in PatchNotes, c \in PatchCollections}
      \cup {[is_favorite |-> v, collection_id |-> c] :
               v \in PatchFlags, c \in PatchCollections}
      \cup {[note |-> n, is_favorite |-> v, collection_id |-> c] :
               n \in PatchNotes, v \in PatchFlags, c \in PatchCollections}

\* Partial updates of stored links, with a collection to file them in.
NextPatch ==
    \/ CollCreate(Owner, Str("c"))
    \/ \E id \in LinkIds, body \in PatchBodies : Patch(Owner, id, body)

SpecPatch == InitStored /\ [][NextPatch]_vars

IngestUrls == {Str("https://a.com"), PaddedA, Str(OtherSchemeBody),
               Str(MalformedBody), Str(BlankBody), [pad |-> TRUE, body |-> BlankBody],
               Str(ExactUrlBody), Str(LongUrlBody),
               [pad |-> TRUE, body |-> ExactUrlBody], JsNumber, JsNull}
IngestNotes == {Str("n"), Str(ExactNoteBody), Str(LongNoteBody), JsNumber}
IngestBodies ==
    {[is_favorite |-> FALSE]}
      \cup {[url |-> u, is_favorite |-> FALSE] : u \in IngestUrls}
      \cup {[url |-> u, note |-> n, is_favorite |-> FALSE] :
               u \in IngestUrls, n \in IngestNotes}

\* Single-link ingestion of every kind of input.
NextIngest ==
    \E body \in IngestBodies, dbOk \in BOOLEAN :
        Ingest(Owner, body, "titled", dbOk)

SpecIngest == InitServer /\ [][NextIngest]_vars

\* ---------------------------------------------------- the resolver alone
ResolverUrls == {Str("https://a.com"), Str("https://b.com"), PaddedA,
                 Str(ExactUrlBody), Str(OtherSchemeBody), Str(MalformedBody)}

\* A caller awaits fetchMetadata(url) and keeps what it got.
Resolve(url, outcome) ==
    /\ Arrives
    /\ resp' = [Reply("resolve", 0, Owner) EXCEPT
                  !.url = url,
                  !.body = [outcome |-> outcome,
                            metadata |-> fetchMetadata(url, outcome)]]
    /\ UNCHANGED <<links, toggles, bulk, chain, collections>>
    /\ UNCHANGED clientVars

NextResolver ==
    \E url \in ResolverUrls, outcome \in ResolverOutcomes : Resolve(url, outcome)

SpecResolver == InitServer /\ [][NextResolver]_vars

\* ------------------------------------------- AddLinkForm (AddLinkForm.tsx)
FormUrls == {Str(""), Str("https://a.com"), PaddedA, Str("https://b.com"),
             Str(MalformedBody)}

\* The effect on [url], AddLinkForm.tsx:40-72, run after the url has changed:
\* the cleanup of the previous run clears its timer, then a url that is blank
\* or does not parse clears duplicate, and any other starts the 500 ms timer.
\* duplicate is kept until a check answers.
UrlEffect(f, url) ==
    [f EXCEPT !.url = url,
              !.allowDuplicate = FALSE,
              !.duplicate = IF Trim(url).body = BlankBody \/ ~Parses(Trim(url))
                            THEN 0 ELSE @]
UrlEffectTimer(url) ==
    IF Trim(url).body = BlankBody \/ ~Parses(Trim(url)) THEN NoTimer
    ELSE [pending |-> TRUE, url |-> url]

\* onChange of the url input (151); the input is disabled while loading.
FormType(url) ==
    /\ ~form.loading
    /\ url # form.url
    /\ form' = UrlEffect(form, url)
    /\ formTimer' = UrlEffectTimer(url)
    /\ UNCHANGED <<formChecks, formSent>>
    /\ UNCHANGED <<links, besideForm>>

\* The debounce timer expires (59-62): the check for the url it was started
\* with is sent.
FormDebounce ==
    /\ formTimer # NoTimer
    /\ formChecks' = formChecks \cup {Trim(formTimer.url)}
    /\ formTimer' = NoTimer
    /\ UNCHANGED <<form, formSent>>
    /\ UNCHANGED <<links, besideForm>>

\* A duplicate check is answered (62-68) by GET /check-duplicate, or fails;
\* a failure is ignored.
FormChecked(url, netOk) ==
    /\ url \in formChecks
    /\ formChecks' = formChecks \ {url}
    /\ LET found == DuplicateLookup(links, Owner, url)
       IN form' = IF netOk /\ ~found.error
                  THEN [form EXCEPT !.duplicate = found.data]
                  ELSE form
    /\ UNCHANGED <<formTimer, formSent>>
    /\ UNCHANGED <<links, besideForm>>

\* The 'Save anyway' control (201-211), shown with the duplicate warning.
FormAllow ==
    /\ form.duplicate # 0 /\ ~form.allowDuplicate
    /\ form' = [form EXCEPT !.allowDuplicate = TRUE]
    /\ UNCHANGED <<formTimer, formChecks, formSent>>
    /\ UNCHANGED <<links, besideForm>>

\* handleSubmit up to its await (95-116). The Save button is disabled while
\* loading or with a blank url (190), and the browser submits a required
\* type="url" input only with a URL in it (149, 160).
FormSubmit ==
    /\ ~form.loading
    /\ Parses(Trim(form.url))
    /\ Len(links) < MaxRows
    /\ IF form.duplicate # 0 /\ ~form.allowDuplicate
       THEN /\ formSent' = [kind |-> "blocked", url |-> Trim(form.url)]
            /\ UNCHANGED form
       ELSE /\ formSent' = [kind |-> "create", url |-> Trim(form.url),
                            allow_duplicate |-> form.allowDuplicate,
                            saved |-> WithUrl(links, Owner, Trim(form.url)) # {}]
            /\ form' = [form EXCEPT !.loading = TRUE]
    /\ UNCHANGED <<formTimer, formChecks>>
    /\ UNCHANGED <<links, besideForm>>

\* handleSubmit after its await (117-136): POST /api/links has answered.
FormCreated(outcome, dbOk) ==
    /\ form.loading
    /\ LET r == PostLink(links, Owner, [url |-> formSent.url, is_favorite |-> FALSE],
                         outcome, dbOk)
       IN /\ links' = r.links
          /\ IF r.status = 201
             THEN /\ form' = [UrlEffect(form, Str("")) EXCEPT !.loading = FALSE]
                  /\ formTimer' = NoTimer
             ELSE /\ form' = [form EXCEPT !.loading = FALSE]
                  /\ UNCHANGED formTimer
    /\ UNCHANGED <<formChecks, formSent>>
    /\ UNCHANGED besideForm

NextForm ==
    \/ \E url \in FormUrls : FormType(url)
    \/ FormDebounce
    \/ \E url \in FormUrls, netOk \in BOOLEAN : FormChecked(url, netOk)
    \/ FormAllow
    \/ FormSubmit
    \/ \E dbOk \in BOOLEAN : FormCreated("titled", dbOk)

\* One link saved, the form just mounted.
InitOneSaved ==
    /\ links = <<InitialRow(FALSE)>>
    /\ cache = NoData
    /\ toggles = [s \in Sessions |-> Idle]
    /\ bulk = NoBulk
    /\ resp = NoResp
    /\ chain = NoChain
    /\ reqs = 0
    /\ collections = <<>>
    /\ InitUi
    /\ invalidated = {}
    /\ statsInvalid = FALSE
    /\ deletedLink = NoLink
    /\ undoTimeout = 0
    /\ timers = {}
    /\ nextTimer = 1
    /\ undoToasts = {}
    /\ cardReqs = {}
    /\ muts = {}
    /\ started = 0
    /\ ops = 0
    /\ delReqs = [l \in 1..(NLinks + MaxOps) |-> 0]
    /\ passed = {}
    /\ heldIn = [l \in 1..(NLinks + MaxOps) |-> {}]
    /\ undoRestored = {}
    /\ deferred = {}
    /\ committedOk = {}
    /\ lastEvent = Quiet

SpecForm == InitOneSaved /\ [][NextForm]_vars

\* ------------------------------------- queries and mutations (main.tsx:8-15)
\* The retries a failed request is given: defaultOptions.queries.retry for a
\* query; no option is set for mutations, which the library does not retry.
RetriesOf(k) == IF k \in QueryKeys THEN QueryRetry ELSE 0

\* A fetch starts (a component mounts, the key is invalidated, the user
\* refetches or calls mutate): the first request is sent.
FetchStart(k) ==
    /\ attempts[k].status # "fetching"
    /\ attempts' = [attempts EXCEPT ![k] = [status |-> "fetching", sent |-> 1]]
    /\ UNCHANGED <<links, serverVars, cacheVars, formVars, searchBox>>

\* The request in flight is answered.
FetchSucceeds(k) ==
    /\ attempts[k].status = "fetching"
    /\ attempts' = [attempts EXCEPT ![k].status = "success"]
    /\ UNCHANGED <<links, serverVars, cacheVars, formVars, searchBox>>

\* The request in flight fails: it is sent again while the failures so far
\* are not more than the retries, and the error is surfaced after that.
FetchFails(k) ==
    /\ attempts[k].status = "fetching"
    /\ attempts' = IF attempts[k].sent <= RetriesOf(k)
                   THEN [attempts EXCEPT ![k].sent = @ + 1]
                   ELSE [attempts EXCEPT ![k].status = "error"]
    /\ UNCHANGED <<links, serverVars, cacheVars, formVars, searchBox>>

NextQueries ==
    \E k \in QueryKeys \cup MutationKeys :
        FetchStart(k) \/ FetchSucceeds(k) \/ FetchFails(k)

SpecQueries == InitServer /\ [][NextQueries]_vars

\* ------------------------------- Dashboard search box (Dashboard.tsx:61-65)
SearchInputs == {"", "a", "ab", "abc", "b"}

\* (an effect without its cleanup: the timer of the previous run stays)
keepTimers(running, value) == running \cup {value}
\* The effect on [searchInput], run after searchInput has changed:
\* clearTimeout(timer) of the previous run, then setTimeout for the new value.
restartTimer(running, value) == {value}

\* onChange of the search input (282)
SearchType(value) ==
    /\ searchBox.keys < MaxKeys
    /\ value # searchBox.input
    /\ searchBox' = [searchBox EXCEPT
                       !.input = value,
                       !.timers = restartTimer(@, value),
                       !.keys = @ + 1,
                       !.changes = 0]
    /\ UNCHANGED <<links, serverVars, cacheVars, formVars, attempts>>

\* The 300 ms timer expires: setSearch(searchInput) with the value the effect
\* was run for (63).
SearchExpire(value) ==
    /\ value \in searchBox.timers
    /\ searchBox' = [searchBox EXCEPT
                       !.search = value,
                       !.timers = @ \ {value},
                       !.changes = IF value # searchBox.search THEN @ + 1 ELSE @]
    /\ UNCHANGED <<links, serverVars, cacheVars, formVars, attempts>>

\* clearFilters (101-107): both values are emptied at once; the effect runs
\* again only if searchInput has changed.
ClearFilters ==
    /\ searchBox.keys < MaxKeys
    /\ searchBox' = [searchBox EXCEPT
                       !.input = "",
                       !.search = "",
                       !.timers = IF searchBox.input # ""
                                  THEN restartTimer(@, "") ELSE @,
                       !.keys = @ + 1,
                       !.changes = 0]
    /\ UNCHANGED <<links, serverVars, cacheVars, formVars, attempts>>

NextSearchBox ==
    \/ \E value \in SearchInputs : SearchType(value)
    \/ \E value \in SearchInputs : SearchExpire(value)
    \/ ClearFilters

\* A timer that is not cleared expires.
SpecSearchBox ==
    /\ InitServer
    /\ [][NextSearchBox]_vars
    /\ WF_vars(\E value \in SearchInputs : SearchExpire(value))

\* ----------------------------------- shared read (collections.js:38-66)
\* crypto.randomBytes(8).toString('hex'): a value that no earlier request
\* drew; the n-th request draws the n-th value.
SlugOf(n) == "slug" \o ToString(n)
FreshSlug == SlugOf(reqs + 1)
IssuedSlugs == {SlugOf(n) : n \in 1..reqs}

\* .eq('share_slug', slug).eq('is_public', true)
SharedFind(cs, slug) ==
    {c \in 1..Len(cs) : cs[c] # NoRow /\ cs[c].share_slug = slug /\ cs[c].is_public}

\* .eq('collection_id', collection.id), newest first
SharedLinks(t, c) == {id \in 1..Len(t) : t[id] # NoRow /\ t[id].collection_id = c}

\* The answer of GET /api/shared/:slug: .single() is an error unless exactly
\* one row matched, and the error answers 404.
SharedLookup(cs, t, slug) ==
    LET found == SharedFind(cs, slug)
    IN IF Cardinality(found) = 1
       THEN [status |-> 200, id |-> CHOOSE c \in found : TRUE,
             ids |-> SharedLinks(t, CHOOSE c \in found : TRUE)]
       ELSE [status |-> 404, id |-> 0, ids |-> {}]

\* GET /api/shared/:slug, index.js:34-39 and collections.js:38-66; no caller
\* identity is read.
SharedRead(slug) ==
    /\ Arrives
    /\ LET r == SharedLookup(collections, links, slug)
       IN resp' = [Reply("shared", r.status, "") EXCEPT
                     !.slug = slug, !.id = r.id, !.ids = r.ids]
    /\ UNCHANGED <<links, toggles, bulk, chain>>
    /\ UNCHANGED collections
    /\ UNCHANGED clientVars

NextShared ==
    \/ \E u \in Users : CollCreate(u, Str("c"))
    \/ \E u \in Users, id \in CollIds : CollShare(u, id, FreshSlug)
    \/ \E u \in Users, id \in CollIds : CollRevoke(u, id)
    \/ \E id \in LinkIds : Patch(Owner, id, [collection_id |-> 1])
    \/ \E u \in Users :
          Ingest(u, [url |-> Str("https://b.com"), is_favorite |-> FALSE,
                     collection_id |-> 1], "titled", TRUE)
    \/ \E n \in 1..MaxReqs : SharedRead(SlugOf(n))

SpecShared == InitStored /\ [][NextShared]_vars

\* ================================================================ properties
\* The delete of link l is pending: l sits in the holder with its timer running.
Pending(l) ==
    /\ deletedLink # NoLink
    /\ deletedLink.id = l
    /\ \E tm \in timers : tm.link = l

ListedIds(v) == SeqIds(GetLinks(links, Owner, v))

\* C1: when Undo has just restored link L (clicked while L's timer was
\* running), no DELETE request for L has been issued since the start of the run
\* and a list query now returns L.
C1_UndoKeepsLinkAndSendsNoDelete ==
    lastEvent.type = "undo" =>
        /\ delReqs[lastEvent.id] = 0
        /\ lastEvent.id \in ListedIds(AllView)

\* C2: the timer of deleteWithUndo(L) firing issues the DELETE request for L
\* (the delete mutation is in flight right after), and once that request has
\* succeeded no list query of the owner, under any filter, returns L.
C2_TimerCommitsDelete ==
    /\ lastEvent.type = "timer" =>
          /\ lastEvent.id \in deferred
          /\ \E m \in muts : m.kind = "delete" /\ m.id = lastEvent.id
    /\ \A l \in committedOk : \A v \in ViewKeys : l \notin ListedIds(v)

C2_Witness ==
    /\ committedOk # {}
    /\ muts = {}
    /\ timers = {}

\* C3: every link passed to deleteWithUndo whose delete is no longer pending
\* is in exactly one of two states: restored by Undo with no deferred delete
\* request issued, or not restored with its deferred delete request issued.
C3_DeleteLifecycleTerminates ==
    \A l \in passed :
        ~Pending(l) =>
            \/ l \in undoRestored /\ l \notin deferred
            \/ l \notin undoRestored /\ l \in deferred

\* C4: right after the request of an update, favorite-toggle or delete
\* mutation has failed, every cached links view holds exactly what it held
\* when that mutation's onMutate took its snapshot.
C4_RollbackRestoresEveryView ==
    (lastEvent.type = "failed" /\ lastEvent.kind \in Single) =>
        \A v \in ViewKeys : cache[v] = lastEvent.before[v]

\* A failed mutation whose optimistic change reached both views, another
\* mutation having been started after it.
C4_Witness ==
    /\ lastEvent.type = "failed"
    /\ lastEvent.kind \in Single
    /\ \A v \in ViewKeys : lastEvent.id \in SeqIds(cache[v])
    /\ started >= 2

\* C5: every failed create, update, favorite-toggle, batch delete or batch
\* move shows an error notification and leaves no optimistic change of its own
\* in the cache.
C5_FailureNotifiesAndRollsBack ==
    (/\ lastEvent.type = "failed"
     /\ lastEvent.kind \in {"create", "update", "favorite", "batchDelete", "batchMove"})
    => /\ lastEvent.errorToast
       /\ lastEvent.kind \in Single => cache = lastEvent.before

\* C6: two favorite-toggles on one link, one after the other with no other
\* write to its is_favorite between the first read and the second write, leave
\* is_favorite at the value it had before the first; and every successful
\* toggle answers with the negation of the value it read when it began.
C6_TwoTogglesRestoreFavorite ==
    /\ (chain.n = 2 /\ ~chain.open) =>
          /\ Exists(links, chain.id)
          /\ links[chain.id].is_favorite = chain.orig
    /\ (resp.op = "toggle" /\ resp.status = 200) =>
          /\ resp.is_favorite = ~resp.current
          /\ links[resp.id].is_favorite = resp.is_favorite

C6_Witness ==
    /\ chain.n = 2 /\ ~chain.open
    /\ resp.op = "toggle" /\ resp.status = 200 /\ resp.id = chain.id

\* C7: whenever the caller has a link with URL U, check-duplicate for U answers
\* exists = true with the id of one of the caller's links with URL U, also when
\* the caller has several.
C7_CheckDuplicateFindsSavedUrl ==
    (resp.op = "checkDuplicate" /\ WithUrl(links, resp.user, Trim(resp.url)) # {}) =>
        /\ resp.status = 200
        /\ resp.exists
        /\ resp.id \in WithUrl(links, resp.user, Trim(resp.url))

\* C8: in a bulk ingestion that is answered, every item whose URL is a
\* malformed string is recorded under failed and not under success.
C8_BulkRefusesMalformedUrl ==
    (resp.op = "bulk" /\ resp.status = 201) =>
        \A p \in 1..Len(resp.urls) :
            LET url == ItemUrl(resp.urls[p])
            IN (IsString(url) /\ ~isValidUrl(Trim(url))) =>
                  /\ \E i \in 1..Len(resp.failed) : resp.failed[i].pos = p
                  /\ ~\E i \in 1..Len(resp.success) : resp.success[i].pos = p

\* C9: a bulk ingestion of 1 to 20 items is answered 201 with every item in
\* one of success, failed and duplicates, whatever the items are.
C9_BulkProcessesEveryItem ==
    (resp.op = "bulk" /\ Len(resp.urls) \in 1..MaxUrls) =>
        /\ resp.status = 201
        /\ \A p \in 1..Len(resp.urls) :
              \/ \E i \in 1..Len(resp.success) : resp.success[i].pos = p
              \/ \E i \in 1..Len(resp.failed) : resp.failed[i].pos = p
              \/ \E i \in 1..Len(resp.duplicates) : resp.duplicates[i].pos = p

\* C10: a bulk ingestion creates no row for a URL of which the caller had a
\* link, one or several, when the item was looked up; such an item is recorded
\* under duplicates with the id of one of those links.
C10_BulkCreatesNoDuplicateRow ==
    (resp.op = "bulk" /\ resp.status = 201) =>
        /\ \A i \in 1..Len(resp.success) : resp.success[i].had = {}
        /\ \A i \in 1..Len(resp.duplicates) :
              resp.duplicates[i].id \in
                 WithUrl(links, resp.user, Trim(ItemUrl(resp.urls[resp.duplicates[i].pos])))

\* C11: a bulk ingestion of 1 to 20 items that returns its result counts every
\* input position in exactly one of success, failed and duplicates, the three
\* lists hold as many entries as there are items, and the request created as
\* many rows as success has entries.
C11_BulkResultPartitionsInput ==
    (resp.op = "bulk" /\ resp.status = 201) =>
        LET n == Len(resp.urls)
            At(list, p) == {i \in 1..Len(list) : list[i].pos = p}
        IN /\ n \in 1..MaxUrls
           /\ Len(resp.success) + Len(resp.failed) + Len(resp.duplicates) = n
           /\ \A p \in 1..n :
                 Cardinality(At(resp.success, p)) + Cardinality(At(resp.failed, p))
                    + Cardinality(At(resp.duplicates, p)) = 1
           /\ resp.created = Len(resp.success)
           /\ \A i \in 1..Len(resp.success) : Exists(links, resp.success[i].id)

C11_Witness ==
    /\ resp.op = "bulk" /\ resp.status = 201
    /\ Len(resp.urls) = MaxBatch
    /\ Len(resp.success) >= 1
    /\ Len(resp.failed) + Len(resp.duplicates) >= 1

\* C12: a bulk ingestion whose urls is missing, no array, empty or longer than
\* 20 is answered 400 with no row created, no duplicate lookup and no metadata
\* fetch, and is never taken into processing.
C12_BulkRejectsBadCount ==
    LET Bad(v) == ~IsArray(v) \/ Len(v.array) = 0 \/ Len(v.array) > MaxUrls
    IN /\ (resp.op = "bulk" /\ Bad(resp.body)) =>
             /\ resp.status = 400
             /\ resp.created = 0 /\ resp.lookups = 0 /\ resp.fetches = 0
       /\ bulk # NoBulk => ~Bad(bulk.body)
       /\ (resp.op = "bulk" /\ resp.status = 400) => Bad(resp.body)

C12_Witness ==
    /\ resp.op = "bulk" /\ resp.status = 400
    /\ IsArray(resp.body) /\ Len(resp.body.array) > MaxUrls
    /\ Len(links) >= 1

\* A row with its updated_at left out of the comparison.
SaveStamp(row) == [row EXCEPT !.updated_at = 0]

\* C13: a collection delete deletes no link; after deleting collection C every
\* link that referenced C exists with collection reference null and its other
\* fields, updated_at aside, as before, and every other link is as before.
C13_CollectionDeleteKeepsLinks ==
    resp.op = "collDelete" =>
        /\ Len(links) = Len(resp.before)
        /\ \A l \in 1..Len(resp.before) :
              resp.before[l] # NoRow =>
                 /\ links[l] # NoRow
                 /\ IF resp.exists /\ resp.before[l].collection_id = resp.id
                    THEN SaveStamp(links[l]) =
                            SaveStamp([resp.before[l] EXCEPT
                                          !.collection_id = NoCollection])
                    ELSE links[l] = resp.before[l]

\* C13 as stated: every link that referenced C has all its other fields
\* unchanged, updated_at included.
C13_AllOtherFieldsUnchanged ==
    resp.op = "collDelete" =>
        \A l \in 1..Len(resp.before) :
            resp.before[l] # NoRow =>
               /\ links[l] # NoRow
               /\ links[l] =
                     IF resp.exists /\ resp.before[l].collection_id = resp.id
                     THEN [resp.before[l] EXCEPT !.collection_id = NoCollection]
                     ELSE resp.before[l]

C13_Witness ==
    /\ resp.op = "collDelete" /\ resp.exists
    /\ Cardinality({l \in 1..Len(resp.before) :
                       resp.before[l].collection_id = resp.id}) >= 2
    /\ \A l \in 1..Len(links) : links[l] # NoRow

\* C14: in every state every collection has a share_slug exactly when it is
\* public; a share that succeeds leaves the collection public with the slug
\* generated for it, a revoke that succeeds leaves it not public with no slug.
C14_SlugIffPublic ==
    /\ \A c \in 1..Len(collections) :
          collections[c] # NoRow =>
             (collections[c].share_slug # NoSlug <=> collections[c].is_public)
    /\ (resp.op = "collShare" /\ resp.status = 200) =>
          /\ collections[resp.id].is_public
          /\ collections[resp.id].share_slug = resp.slug
          /\ resp.slug # NoSlug
    /\ (resp.op = "collRevoke" /\ resp.status = 200) =>
          /\ ~collections[resp.id].is_public
          /\ collections[resp.id].share_slug = NoSlug

C14_Witness ==
    /\ resp.op = "collRevoke" /\ resp.status = 200
    /\ resp.slug # NoSlug

\* One of the four columns contains the search text as a substring, letter
\* case aside.
SearchLiteral(row, search) ==
    \E f \in SearchColumns :
        /\ row[f] # NullText
        /\ \E i \in 0..Len(row[f].chars), j \in 0..Len(row[f].chars) :
              /\ j - i = Len(search)
              /\ \A k \in 1..Len(search) :
                    Lower(row[f].chars[i + k]) = Lower(search[k])

\* C19: a list query with search text s returns exactly the caller's links
\* that pass the favorite filter and of which title, note, url or description
\* contains s as a substring, letter case aside.
C19_SearchReturnsSubstringMatches ==
    (resp.op = "list" /\ "search" \in DOMAIN resp.filters) =>
        (resp.filters.search # <<>> =>
            resp.ids = {id \in 1..Len(links) :
                           /\ Owned(links, resp.user, id)
                           /\ (resp.filters.favorite => links[id].is_favorite)
                           /\ SearchLiteral(links[id], resp.filters.search)})

\* C15: every link a caller creates, singly or in bulk, is owned by that
\* caller; list, stats, export and check-duplicate return only links of the
\* caller; update, favorite-toggle and delete leave every link of another
\* caller as it was.
C15_OwnershipIsolation ==
    /\ (resp.op = "post" /\ resp.status = 201) =>
          links[resp.id].user_id = resp.user
    /\ (resp.op = "bulk" /\ resp.status = 201) =>
          \A i \in 1..Len(resp.success) :
             links[resp.success[i].id] # NoRow =>
                links[resp.success[i].id].user_id = resp.user
    /\ resp.op \in {"list", "stats", "export"} =>
          \A id \in resp.ids : links[id].user_id = resp.user
    /\ (resp.op = "checkDuplicate" /\ resp.exists) =>
          links[resp.id].user_id = resp.user
    /\ resp.op \in {"patch", "toggle", "delete"} =>
          \A l \in 1..Len(resp.before) :
             (resp.before[l] # NoRow /\ resp.before[l].user_id # resp.user) =>
                links[l] = resp.before[l]

C15_Witness ==
    /\ resp.op \in {"patch", "delete"}
    /\ Exists(links, resp.id)
    /\ links[resp.id].user_id # resp.user
    /\ \E l \in 1..Len(links) : links[l] # NoRow /\ links[l].user_id = resp.user

C20_MissingLinkAnswers404 ==
    (resp.op \in {"patch", "toggle", "delete"}
        /\ ~Owned(resp.before, resp.user, resp.id)) =>
            /\ resp.status = 404
            /\ links = resp.before

\* C17: single-link ingestion answers 400, with no metadata fetch and no row
\* created, exactly the inputs whose url is absent, no string or blank, is not
\* a well-formed http or https URL, or is longer than 2048 characters, or whose
\* note is longer than 5000 characters; no other input is answered 400.
C17_IngestValidation ==
    resp.op = "post" =>
        LET url == Field(resp.body, "url")
            note == Field(resp.body, "note")
            Refused ==
               \/ ~IsString(url)
               \/ Trim(url).body = BlankBody
               \/ ~(Parses(Trim(url)) /\ Trim(url).body # OtherSchemeBody)
               \/ Length(url) >= MaxUrlLen + 1
               \/ (IsString(note) /\ Length(note) >= MaxNoteLen + 1)
        IN IF Refused
           THEN /\ resp.status = 400
                /\ resp.fetches = 0
                /\ resp.created = 0
                /\ links = resp.before
           ELSE resp.status # 400

C17_Witness ==
    /\ resp.op = "post" /\ resp.status = 400
    /\ IsString(Field(resp.body, "url"))
    /\ resp.body.url.body = LongUrlBody
    /\ Len(links) >= 1

\* C18: for every valid URL the metadata resolver returns a record and never
\* throws to its caller; when the scraper reports an error, times out or
\* anything in the resolver throws, the record is the fallback record; and in
\* every outcome the record's title and favicon are non-null.
C18_ResolverAlwaysAnswers ==
    (resp.op = "resolve" /\ isValidUrl(Trim(resp.url))) =>
        LET metadata == resp.body.metadata
            Failed == resp.body.outcome \in {"error", "throws", "iconUnresolvable"}
        IN /\ metadata # Thrown
           /\ DOMAIN metadata = {"title", "description", "image", "favicon"}
           /\ Failed =>
                 metadata = [title |-> DomainOf(resp.url), description |-> Null,
                             image |-> Null, favicon |-> "google-favicon-128"]
           /\ metadata.title # Null
           /\ metadata.favicon # Null

C18_Witness ==
    /\ resp.op = "resolve"
    /\ isValidUrl(Trim(resp.url))
    /\ resp.body.outcome = "iconUnresolvable"
    /\ resp.body.metadata.favicon = "google-favicon-128"
    /\ reqs >= 2

\* C21: a create request that the add-link form sends for a URL the user has
\* already saved is sent with the user's confirmation ('Save anyway' pressed
\* for the URL in the input), whatever the timing of typing, debounce timer,
\* duplicate-check answer and submit.
C21_DuplicateNeedsConfirmation ==
    (formSent.kind = "create" /\ formSent.saved) => formSent.allow_duplicate

\* C22: no request is sent again automatically: each fetch of a query (links,
\* collections, stats) and each mutation sends one request, and a failure is
\* surfaced after that one request.
C22_NoAutomaticResend ==
    \A k \in QueryKeys \cup MutationKeys : attempts[k].sent <= 1

\* C23: when the last per-record request of a batch delete or batch move
\* settles, the cached links views are invalidated, for a delete the stats
\* too, whether or not a request of the batch failed; and the failure of a
\* batch is reported to the user.
C23_BatchSettledInvalidates ==
    /\ [][\A m \in muts :
            (/\ m.kind \in {"batchDelete", "batchMove"}
             /\ \A n \in muts' : n.mid # m.mid)
               => /\ invalidated' = ViewKeys
                  /\ m.kind = "batchDelete" => statsInvalid']_vars
    /\ [](lastEvent.type = "failed" /\ lastEvent.kind \in {"batchDelete", "batchMove"}
             => lastEvent.errorToast)

\* C24: the search value is copied from the typed input only by the debounce
\* timer expiring with no keystroke since it was started (the only other
\* change is the reset of both values by clearFilters); every keystroke
\* cancels the pending copy, so a burst of keystrokes changes the search value
\* at most once; and once typing has stopped the search value eventually
\* equals the input.
C24_SearchFollowsInputAfterDebounce ==
    /\ [][searchBox'.search # searchBox.search =>
            \/ /\ searchBox.input \in searchBox.timers
               /\ searchBox'.search = searchBox.input
               /\ searchBox'.input = searchBox.input
            \/ /\ searchBox'.search = ""
               /\ searchBox'.input = ""
               /\ searchBox'.keys = searchBox.keys + 1]_vars
    /\ [](searchBox.timers \subseteq {searchBox.input})
    /\ [](searchBox.changes <= 1)
    /\ <>[](searchBox.search = searchBox.input)

\* Three keystrokes in a row, then the timer has copied the last input.
C24_Witness ==
    /\ searchBox.keys >= 3
    /\ searchBox.input = "ab"
    /\ searchBox.search = "ab"
    /\ searchBox.changes = 1
    /\ searchBox.timers = {}

\* C25: the unauthenticated shared read for slug s answers 200 with a
\* collection and the links filed in it only if that collection now has
\* is_public = true and share_slug = s, and 404 otherwise; a revoke or a
\* re-share of a collection makes the slug it had stop resolving, and a slug
\* issued earlier that does not resolve never resolves again.
C25_SharedReadResolvesCurrentSlugOnly ==
    /\ [](resp.op = "shared" =>
            IF \E c \in 1..Len(collections) :
                   /\ collections[c] # NoRow
                   /\ collections[c].is_public
                   /\ collections[c].share_slug = resp.slug
            THEN /\ resp.status = 200
                 /\ collections[resp.id].is_public
                 /\ collections[resp.id].share_slug = resp.slug
                 /\ resp.ids = {id \in 1..Len(links) :
                                   links[id] # NoRow /\ links[id].collection_id = resp.id}
            ELSE resp.status = 404 /\ resp.ids = {})
    /\ [][(/\ reqs' = reqs + 1
            /\ resp'.op \in {"collShare", "collRevoke"}
            /\ resp'.status = 200
            /\ collections[resp'.id].share_slug # NoSlug)
              => SharedLookup(collections', links',
                              collections[resp'.id].share_slug).status = 404]_vars
    /\ [][\A s \in IssuedSlugs :
            SharedLookup(collections, links, s).status = 404
               => SharedLookup(collections', links', s).status = 404]_vars

\* The first slug of a collection that was shared and then shared again is read.
C25_Witness ==
    /\ resp.op = "shared" /\ resp.status = 404
    /\ resp.slug = SlugOf(2)
    /\ Len(collections) = 1
    /\ collections[1].share_slug = SlugOf(3)

\* C26: a click on Undo of the toast shown for the deletion of link A puts no
\* link other than A back into a cached view and cancels no pending delete
\* timer of another link, also when another link was deleted with
\* deleteWithUndo in between.
C26_UndoActsOnItsOwnLink ==
    [][\A t \in undoToasts \ undoToasts' :
          /\ \A v \in ViewKeys : SeqIds(cache'[v]) \ SeqIds(cache[v]) \subseteq {t}
          /\ \A tm \in timers \ timers' : tm.link = t]_vars

\* How often link id occurs in a cached view.
Occurrences(view, id) == Cardinality({i \in 1..Len(view) : view[i].id = id})

\* C27: deleteWithUndo(L) followed by Undo is a round trip on the membership
\* of every cached links view: right after the Undo, a view that held L when
\* it was deleted holds L exactly once, and a view that did not hold L does
\* not hold it.
C27_UndoRestoresViewMembership ==
    lastEvent.type = "undo" =>
        \A v \in ViewKeys :
            Occurrences(cache[v], lastEvent.id)
                = IF v \in heldIn[lastEvent.id] THEN 1 ELSE 0

\* The records of link id in a cached view, in order.
RecordsOf(view, id) == SelectSeq(view, LAMBDA l : l.id = id)

\* C28: when an optimistic update, favorite-toggle or delete fails while
\* another one, for another link, is in flight, its rollback leaves the
\* other's optimistic change in every cached links view.
C28_RollbackKeepsOtherMutation ==
    [][\A m \in muts \ muts' :
          (lastEvent'.type = "failed" /\ m.kind \in Single) =>
              \A n \in muts' :
                  (n.kind \in Single /\ n.id # m.id) =>
                      \A v \in ViewKeys :
                          RecordsOf(cache'[v], n.id) = RecordsOf(cache[v], n.id)]_vars

\* C29: the read and the write of a favorite-toggle request are not
\* interleaved with the read and the write of another favorite-toggle request
\* for the same link: when a toggle writes, no other toggle of that link is
\* between its read and its write.
C29_TogglesDoNotInterleave ==
    [][\A s \in Sessions :
          (toggles[s] # Idle /\ toggles'[s] = Idle) =>
              \A o \in Sessions \ {s} :
                  ~(toggles[o] # Idle /\ toggles[o].id = toggles[s].id
                                      /\ toggles[o].user = toggles[s].user)]_vars

\* C30: every link's collection_id is null or names a collection of the
\* link's owner, and a shared read lists no link of a user other than the
\* collection's owner.
C30_LinksFiledInOwnCollections ==
    /\ \A id \in 1..Len(links) :
          (links[id] # NoRow /\ links[id].collection_id # NoCollection) =>
              /\ Exists(collections, links[id].collection_id)
              /\ collections[links[id].collection_id].user_id = links[id].user_id
    /\ (resp.op = "shared" /\ resp.status = 200) =>
          \A id \in resp.ids :
              links[id].user_id = collections[resp.id].user_id

====
